---------------------------- MODULE Spec2Model ----------------------------
(***************************************************************************)
(* Model of the InfraNodus GEO system:                                     *)
(*   - the content-graph client        (src/infranodus_client.py)          *)
(*   - the Neo4j importer              (src/import_pipeline.py)            *)
(*   - the Graph-RAG answering pipeline (src/graph_rag.py)                 *)
(*   - the analytical queries it uses  (src/cypher_queries.py)             *)
(*                                                                         *)
(* The graph store is a record of node and relationship lists; a node's    *)
(* position in its list is its internal id.  Floats that the program only  *)
(* stores are opaque integers (scores in hundredths); confidences are kept *)
(* in tenths.                                                              *)
(* Timestamps (datetime()) are not modelled.                               *)
(***************************************************************************)
EXTENDS Integers, Sequences, FiniteSets, TLC

(***************************************************************************)
(* Bounds and program constants                                            *)
(***************************************************************************)
\* Longest upstream node list.
MaxNodes == 2

\* import_full_dataset asks get_concepts for limit=200 concepts and
\* get_communities uses get_concepts' default limit=100.  Both are kept in
\* the ratio 2:1 and scaled by 1/50, so that an import can find two
\* communities and the node lists of the model still exceed both limits.
ConceptLimit == 4
DefaultConceptLimit == 2

\* Python's None.
None == "None"

(***************************************************************************)
(* Generic helpers                                                         *)
(***************************************************************************)
Min(a, b) == IF a <= b THEN a ELSE b

Take(s, n) == SubSeq(s, 1, Min(n, Len(s)))

SeqsUpTo(S, n) == UNION {[1..k -> S] : k \in 0..n}

RECURSIVE SelectIdx(_, _, _)
\* The indices i of s, ascending, with P(s[i]) given as the set `keep`.
SelectIdx(s, keep, i) ==
    IF i > Len(s) THEN <<>>
    ELSE (IF i \in keep THEN <<s[i]>> ELSE <<>>) \o SelectIdx(s, keep, i + 1)

Truthy(v) == v # None /\ v # ""

(***************************************************************************)
(* Upstream content-graph service: the response of                         *)
(* GET /api/user/nodes/{context}                                           *)
(***************************************************************************)
NodePool ==
    { [name |-> "k1", betweenness_centrality |-> 2, degree |-> 3, community |-> "cA"],
      [name |-> "k2", betweenness_centrality |-> 1, degree |-> 1, community |-> "cB"],
      [name |-> "k1", betweenness_centrality |-> 1, degree |-> 2, community |-> "cB"],
      [name |-> "k3", betweenness_centrality |-> 2, degree |-> 1, community |-> None],
      [name |-> "k2", betweenness_centrality |-> 0, degree |-> 2, community |-> "cA"] }

Edge(s, t, w) == [source |-> s, target |-> t, weight |-> w]

EdgeLists ==
    { <<>>,
      <<Edge("k1", "k2", 1), Edge("k1", "k2", 2)>>,
      <<Edge("k2", "k1", 1), Edge("k1", "k3", 1)>> }

UpGap(a, b, s) ==
    [topic_a |-> a, topic_b |-> b, opportunity_score |-> s, bridging_keywords |-> <<>>]

\* has_gaps: whether the response carries a "gaps" key.
GapLists ==
    { [has_gaps |-> FALSE, gaps |-> <<>>],
      [has_gaps |-> TRUE, gaps |-> <<>>],
      [has_gaps |-> TRUE, gaps |-> <<UpGap("tA", "tB", 90), UpGap("tB", "tA", 80)>>],
      [has_gaps |-> TRUE, gaps |-> <<UpGap("tA", "tB", 50), UpGap("tA", "tB", 70)>>] }

\* A dataset the service holds, or a service that answers every GET with a
\* non-200 status.
Unavailable == [status |-> 500]

Datasets ==
    { [status |-> 200, nodes |-> n, edges |-> e,
       has_gaps |-> g.has_gaps, gaps |-> g.gaps] :
        n \in SeqsUpTo(NodePool, MaxNodes), e \in EdgeLists, g \in GapLists }

Upstreams == Datasets \cup {Unavailable}

(***************************************************************************)
(* InfraNodusClient                                                        *)
(***************************************************************************)
\* get_graph: the response body on status 200, else the empty default.
get_graph(up) ==
    IF up.status = 200
    THEN (IF up.has_gaps
          THEN [nodes |-> up.nodes, edges |-> up.edges, gaps |-> up.gaps]
          ELSE [nodes |-> up.nodes, edges |-> up.edges])
    ELSE [nodes |-> <<>>, edges |-> <<>>]

RECURSIVE InsertDesc(_, _)
\* x inserted into the list s (sorted by descending betweenness) after every
\* element that is not smaller: list.sort(reverse=True) is stable.
InsertDesc(s, x) ==
    IF s = <<>> THEN <<x>>
    ELSE IF Head(s).betweenness_centrality >= x.betweenness_centrality
         THEN <<Head(s)>> \o InsertDesc(Tail(s), x)
         ELSE <<x>> \o s

RECURSIVE SortDesc(_)
SortDesc(s) ==
    IF s = <<>> THEN <<>>
    ELSE InsertDesc(SortDesc(SubSeq(s, 1, Len(s) - 1)), s[Len(s)])

Concept(node) ==
    [name |-> node.name, betweenness |-> node.betweenness_centrality,
     degree |-> node.degree, community |-> node.community]

get_concepts(up, limit) ==
    LET top_nodes == Take(SortDesc(get_graph(up).nodes), limit)
    IN  [i \in 1..Len(top_nodes) |-> Concept(top_nodes[i])]

RECURSIVE GroupByCommunity(_, _)
\* The dict community -> [names], as a list of entries in insertion order.
GroupByCommunity(items, dict) ==
    IF items = <<>> THEN dict
    ELSE LET it == Head(items)
             at == {i \in 1..Len(dict) : dict[i].name = it.community}
         IN  GroupByCommunity(Tail(items),
                IF at = {}
                THEN Append(dict, [name |-> it.community, keywords |-> <<it.name>>])
                ELSE [i \in 1..Len(dict) |->
                        IF i \in at
                        THEN [dict[i] EXCEPT !.keywords = Append(@, it.name)]
                        ELSE dict[i]])

get_communities(up) ==
    LET concepts == get_concepts(up, DefaultConceptLimit)
        labelled == SelectIdx(concepts,
                        {i \in 1..Len(concepts) : Truthy(concepts[i].community)}, 1)
    IN  GroupByCommunity(labelled, <<>>)

RECURSIVE Join(_, _)
\* sep.join(parts)
Join(sep, parts) ==
    IF parts = <<>> THEN ""
    ELSE IF Len(parts) = 1 THEN parts[1]
    ELSE parts[1] \o sep \o Join(sep, Tail(parts))

\* get_gaps keeps the first 3 members of a community, and scores a derived
\* gap 0.75.
GapKeywordCount == 3
DefaultGapScore == 75

Gap(a, b, s, bk) ==
    [topic_a |-> a, topic_b |-> b, opportunity_score |-> s, bridging_keywords |-> bk]

\* node.get("community", "default"): the key is absent for an unlabelled node.
NodeCommunity(node) == IF node.community = None THEN "default" ELSE node.community

RECURSIVE DerivePairsFromFirst(_, _, _)
\* The inner loop running over every community of the dict instead of
\* names[i+1:].
DerivePairsFromFirst(dict, i, j) ==
    IF i > Len(dict) THEN <<>>
    ELSE IF j > Len(dict) THEN DerivePairsFromFirst(dict, i + 1, 1)
    ELSE <<Gap(Join(" / ", Take(dict[i].keywords, GapKeywordCount)),
               Join(" / ", Take(dict[j].keywords, GapKeywordCount)),
               DefaultGapScore, <<>>)>>
         \o DerivePairsFromFirst(dict, i, j + 1)

RECURSIVE DerivePairs(_, _, _)
\* for i, comm_a in enumerate(names): for comm_b in names[i+1:]: ...
DerivePairs(dict, i, j) ==
    IF i > Len(dict) THEN <<>>
    ELSE IF j > Len(dict) THEN DerivePairs(dict, i + 1, i + 2)
    ELSE LET keywords_a == Take(dict[i].keywords, GapKeywordCount)
             keywords_b == Take(dict[j].keywords, GapKeywordCount)
         IN  (IF keywords_a # <<>> /\ keywords_b # <<>>
              THEN <<Gap(Join(" / ", keywords_a), Join(" / ", keywords_b),
                         DefaultGapScore, <<>>)>>
              ELSE <<>>)
             \o DerivePairs(dict, i, j + 1)

get_gaps(up) ==
    LET graph_data == get_graph(up)
    IN  IF "gaps" \in DOMAIN graph_data
        THEN [i \in 1..Len(graph_data.gaps) |->
                Gap(graph_data.gaps[i].topic_a, graph_data.gaps[i].topic_b,
                    graph_data.gaps[i].opportunity_score,
                    graph_data.gaps[i].bridging_keywords)]
        ELSE LET nodes == graph_data.nodes
                 items == [i \in 1..Len(nodes) |->
                             [name |-> nodes[i].name,
                              community |-> NodeCommunity(nodes[i])]]
             IN  DerivePairs(GroupByCommunity(items, <<>>), 1, 2)

(***************************************************************************)
(* The graph store and Neo4jImporter                                       *)
(***************************************************************************)
EmptyGraph ==
    [Keyword |-> <<>>, TopicCluster |-> <<>>, Gap |-> <<>>, Prompt |-> <<>>,
     BELONGS_TO |-> <<>>, CO_OCCURS_WITH |-> <<>>, SUGGESTS |-> <<>>]

\* The ids of the nodes of list `nodes` that MATCH (n {key: value}).
MatchName(nodes, value) == {i \in 1..Len(nodes) : nodes[i].name = value}

MatchGap(nodes, a, b) ==
    {i \in 1..Len(nodes) : nodes[i].topic_a = a /\ nodes[i].topic_b = b}

MatchText(nodes, text) == {i \in 1..Len(nodes) : nodes[i].text = text}

\* SET on every node of `at`.
SetNodes(nodes, at, props(_)) ==
    [i \in 1..Len(nodes) |-> IF i \in at THEN props(nodes[i]) ELSE nodes[i]]

RECURSIVE MergeRelsCreate(_, _, _)
\* CREATE (a)-[r]->(b) for every pair: a relationship is added whether or
\* not one is there.
MergeRelsCreate(rels, pairs, props) ==
    IF pairs = <<>> THEN rels
    ELSE MergeRelsCreate(Append(rels, [from |-> Head(pairs)[1], to |-> Head(pairs)[2],
                                       props |-> props]),
                         Tail(pairs), props)

RECURSIVE MergeRels(_, _, _)
\* MERGE (a)-[r]->(b) for every pair of `pairs` (a list), then SET r = props.
MergeRels(rels, pairs, props) ==
    IF pairs = <<>> THEN rels
    ELSE LET p == Head(pairs)
             at == {i \in 1..Len(rels) : rels[i].from = p[1] /\ rels[i].to = p[2]}
             r == [from |-> p[1], to |-> p[2], props |-> props]
         IN  MergeRels(IF at = {} THEN Append(rels, r)
                       ELSE [i \in 1..Len(rels) |-> IF i \in at THEN r ELSE rels[i]],
                       Tail(pairs), props)

RECURSIVE SetToSeq(_)
\* The elements of a finite set of integers or pairs, ascending.
SetToSeq(S) ==
    IF S = {} THEN <<>>
    ELSE LET x == CHOOSE y \in S : \A z \in S :
                     \/ y[1] < z[1]
                     \/ (y[1] = z[1] /\ y[2] <= z[2])
         IN  <<x>> \o SetToSeq(S \ {x})

KeywordNode(c) ==
    [name |-> c.name, betweenness |-> c.betweenness, degree |-> c.degree,
     community |-> IF Truthy(c.community) THEN c.community ELSE "uncategorized"]

RECURSIVE MergeKeywords(_, _)
MergeKeywords(nodes, concepts) ==
    IF concepts = <<>> THEN nodes
    ELSE LET k == KeywordNode(Head(concepts))
             at == MatchName(nodes, k.name)
             Props(n) == k
         IN  MergeKeywords(IF at = {} THEN Append(nodes, k)
                           ELSE SetNodes(nodes, at, Props),
                           Tail(concepts))

\* Every concept CREATEs a node: what import_keywords would do without MERGE.
import_keywords_create(g, concepts) ==
    [graph |-> [g EXCEPT !.Keyword =
                    @ \o [i \in 1..Len(concepts) |-> KeywordNode(concepts[i])]],
     count |-> Len(concepts)]

import_keywords(g, concepts) ==
    [graph |-> [g EXCEPT !.Keyword = MergeKeywords(@, concepts)],
     count |-> Len(concepts)]

\* A cluster stored with a modularity other than the importer's 0.0.
ClusterNodeComputed(entry) ==
    [name |-> entry.name, size |-> Len(entry.keywords), modularity |-> 50]

ClusterNode(entry) ==
    [name |-> entry.name, size |-> Len(entry.keywords), modularity |-> 0]

RECURSIVE MergeClusters(_, _)
MergeClusters(nodes, communities) ==
    IF communities = <<>> THEN nodes
    ELSE LET tc == ClusterNode(Head(communities))
             at == MatchName(nodes, tc.name)
             Props(n) == tc
         IN  MergeClusters(IF at = {} THEN Append(nodes, tc)
                           ELSE SetNodes(nodes, at, Props),
                           Tail(communities))

import_topic_clusters(g, communities) ==
    [graph |-> [g EXCEPT !.TopicCluster = MergeClusters(@, communities)],
     count |-> Len(communities)]

RECURSIVE LinkRows(_, _, _)
\* UNWIND concepts: the BELONGS_TO list after every row's MATCH, MATCH, MERGE,
\* and the number of rows that reached RETURN.
LinkRows(g, rows, acc) ==
    IF rows = <<>> THEN acc
    ELSE LET c == Head(rows)
             pairs == MatchName(g.Keyword, c.name)
                        \X MatchName(g.TopicCluster, c.community)
         IN  LinkRows(g, Tail(rows),
                [rels |-> MergeRels(acc.rels, SetToSeq(pairs), <<>>),
                 count |-> acc.count + Cardinality(pairs)])

link_keywords_to_clusters(g, concepts) ==
    LET concepts_data ==
            SelectIdx(concepts,
                {i \in 1..Len(concepts) : Truthy(concepts[i].community)}, 1)
        out == LinkRows(g, concepts_data, [rels |-> g.BELONGS_TO, count |-> 0])
    IN  [graph |-> [g EXCEPT !.BELONGS_TO = out.rels], count |-> out.count]

RECURSIVE CooccurrenceRows(_, _, _)
CooccurrenceRows(g, rows, acc) ==
    IF rows = <<>> THEN acc
    ELSE LET e == Head(rows)
             pairs == MatchName(g.Keyword, e.source) \X MatchName(g.Keyword, e.target)
         IN  CooccurrenceRows(g, Tail(rows),
                [rels |-> MergeRels(acc.rels, SetToSeq(pairs), <<e.weight>>),
                 count |-> acc.count + Cardinality(pairs)])

import_cooccurrences(g, graph_data) ==
    LET out == CooccurrenceRows(g, graph_data.edges,
                                [rels |-> g.CO_OCCURS_WITH, count |-> 0])
    IN  [graph |-> [g EXCEPT !.CO_OCCURS_WITH = out.rels], count |-> out.count]

GapNode(gap) ==
    [topic_a |-> gap.topic_a, topic_b |-> gap.topic_b,
     opportunity_score |-> gap.opportunity_score,
     bridging_keywords |-> gap.bridging_keywords]

RECURSIVE MergeGaps(_, _)
MergeGaps(nodes, gaps) ==
    IF gaps = <<>> THEN nodes
    ELSE LET gn == GapNode(Head(gaps))
             at == MatchGap(nodes, gn.topic_a, gn.topic_b)
             Props(n) == gn
         IN  MergeGaps(IF at = {} THEN Append(nodes, gn)
                       ELSE SetNodes(nodes, at, Props),
                       Tail(gaps))

import_gaps(g, gaps) ==
    [graph |-> [g EXCEPT !.Gap = MergeGaps(@, gaps)], count |-> Len(gaps)]

\* Prompt priorities are capped at 10.
MaxPriority == 10

\* The prompts with the position as priority, uncapped.
PromptDataUncapped(gaps) ==
    [i \in 1..Len(gaps) |->
        [text |-> "How are " \o gaps[i].topic_a \o " and " \o gaps[i].topic_b
                    \o " related?",
         type |-> "exploratory",
         priority |-> i,
         gap_score |-> gaps[i].opportunity_score,
         topic_a |-> gaps[i].topic_a,
         topic_b |-> gaps[i].topic_b]]

\* prompts_data: enumerate(gaps) counts from 0 and the priority is
\* min(i + 1, 10), here with positions counted from 1.
PromptData(gaps) ==
    [i \in 1..Len(gaps) |->
        [text |-> "How are " \o gaps[i].topic_a \o " and " \o gaps[i].topic_b
                    \o " related?",
         type |-> "exploratory",
         priority |-> Min(i, MaxPriority),
         gap_score |-> gaps[i].opportunity_score,
         topic_a |-> gaps[i].topic_a,
         topic_b |-> gaps[i].topic_b]]

PromptNode(p) ==
    [text |-> p.text, type |-> p.type, priority |-> p.priority,
     gap_score |-> p.gap_score]

RECURSIVE PromptRows(_, _)
\* UNWIND prompts: MERGE (p), SET, MATCH (g:Gap), MERGE (g)-[:SUGGESTS]->(p).
\* acc: the graph so far and the number of rows that reached RETURN.
PromptRows(rows, acc) ==
    IF rows = <<>> THEN acc
    ELSE LET p == Head(rows)
             pn == PromptNode(p)
             found == MatchText(acc.graph.Prompt, p.text)
             Props(n) == pn
             prompts == IF found = {} THEN Append(acc.graph.Prompt, pn)
                        ELSE SetNodes(acc.graph.Prompt, found, Props)
             at == MatchText(prompts, p.text)
             pairs == MatchGap(acc.graph.Gap, p.topic_a, p.topic_b) \X at
         IN  PromptRows(Tail(rows),
                [graph |-> [acc.graph EXCEPT
                              !.Prompt = prompts,
                              !.SUGGESTS = MergeRels(@, SetToSeq(pairs), <<>>)],
                 count |-> acc.count + Cardinality(pairs)])

generate_prompts_from_gaps(g, gaps) ==
    PromptRows(PromptData(gaps), [graph |-> g, count |-> 0])

(***************************************************************************)
(* Text: a str is the list of its characters                               *)
(***************************************************************************)
Upper == <<"A", "B", "C", "D", "E", "F", "G", "H", "I", "J", "K", "L", "M",
           "N", "O", "P", "Q", "R", "S", "T", "U", "V", "W", "X", "Y", "Z">>

Lower == <<"a", "b", "c", "d", "e", "f", "g", "h", "i", "j", "k", "l", "m",
           "n", "o", "p", "q", "r", "s", "t", "u", "v", "w", "x", "y", "z">>

LowerChar(c) ==
    IF \E i \in 1..26 : Upper[i] = c
    THEN Lower[CHOOSE i \in 1..26 : Upper[i] = c]
    ELSE c

\* str.lower()
lower(s) == [i \in 1..Len(s) |-> LowerChar(s[i])]

\* needle in hay
Contains(hay, needle) ==
    \E i \in 0..(Len(hay) - Len(needle)) :
        \A j \in 1..Len(needle) : hay[i + j] = needle[j]

StartsWith(s, p) ==
    Len(p) <= Len(s) /\ \A j \in 1..Len(p) : s[j] = p[j]

Drop(s, n) == SubSeq(s, n + 1, Len(s))

RECURSIVE SplitWords(_, _)
\* str.split(): the maximal runs of non-blank characters; cur is the run
\* being read.
SplitWords(s, cur) ==
    IF s = <<>> THEN (IF cur = <<>> THEN <<>> ELSE <<cur>>)
    ELSE IF Head(s) = " "
         THEN (IF cur = <<>> THEN <<>> ELSE <<cur>>) \o SplitWords(Tail(s),
          <<>>)
         ELSE SplitWords(Tail(s), Append(cur, Head(s)))

split(s) == SplitWords(s, <<>>)

RECURSIVE SplitOn(_, _, _)
\* str.split(sep): the pieces between the occurrences of sep, empty ones
\* included.
SplitOn(s, sep, cur) ==
    IF s = <<>> THEN <<cur>>
    ELSE IF StartsWith(s, sep)
         THEN <<cur>> \o SplitOn(Drop(s, Len(sep)), sep, <<>>)
         ELSE SplitOn(Tail(s), sep, Append(cur, Head(s)))

RECURSIVE Replace(_, _, _)
\* str.replace(old, new): left to right, not overlapping.
Replace(s, old, new) ==
    IF s = <<>> THEN <<>>
    ELSE IF StartsWith(s, old)
         THEN new \o Replace(Drop(s, Len(old)), old, new)
         ELSE <<Head(s)>> \o Replace(Tail(s), old, new)

RECURSIVE StripLeft(_)
StripLeft(s) == IF s # <<>> /\ Head(s) = " " THEN StripLeft(Tail(s)) ELSE s

RECURSIVE StripRight(_)
StripRight(s) ==
    IF s # <<>> /\ s[Len(s)] = " " THEN StripRight(SubSeq(s, 1,
          Len(s) - 1)) ELSE s

\* str.strip()
strip(s) == StripRight(StripLeft(s))

RECURSIVE Str(_)
\* The characters as one string, for the answer templates.
Str(s) == IF s = <<>> THEN "" ELSE Head(s) \o Str(Tail(s))

\* [x for x in s if keep(x)]
Filter(s, keep(_)) == SelectIdx(s, {i \in 1..Len(s) : keep(s[i])}, 1)

(***************************************************************************)
(* GraphRAG.classify_question                                              *)
(***************************************************************************)
FEATURE_PHRASES ==
    << <<"w", "h", "a", "t", " ", "i", "s">>,
       <<"e", "x", "p", "l", "a", "i", "n">>,
       <<"d", "e", "s", "c", "r", "i", "b", "e">> >>

PAIN_POINT_PHRASES ==
    << <<"s", "o", "l", "v", "e">>,
       <<"f", "i", "x">>,
       <<"r", "e", "l", "i", "e", "v", "e">>,
       <<"h", "e", "l", "p", " ", "w", "i", "t", "h">>,
       <<"p", "a", "i", "n">> >>

COMPARISON_PHRASES ==
    << <<"c", "o", "m", "p", "a", "r", "e">>,
       <<"v", "s">>,
       <<"v", "e", "r", "s", "u", "s">>,
       <<"d", "i", "f", "f", "e", "r", "e", "n", "c", "e", " ", "b", "e",
          "t", "w", "e", "e", "n">> >>

EVIDENCE_PHRASES ==
    << <<"e", "v", "i", "d", "e", "n", "c", "e">>,
       <<"p", "r", "o", "v", "e">>,
       <<"s", "u", "p", "p", "o", "r", "t">>,
       <<"r", "e", "s", "e", "a", "r", "c", "h">>,
       <<"s", "t", "u", "d", "y">> >>

HOW_TO_PHRASES ==
    << <<"h", "o", "w", " ", "d", "o", "e", "s">>,
       <<"h", "o", "w", " ", "t", "o">>,
       <<"h", "o", "w", " ", "c", "a", "n">> >>

RECOMMENDATION_PHRASES ==
    << <<"r", "e", "c", "o", "m", "m", "e", "n", "d">>,
       <<"b", "e", "s", "t">>,
       <<"w", "h", "i", "c", "h">>,
       <<"s", "h", "o", "u", "l", "d", " ", "i">>,
       <<"s", "u", "g", "g", "e", "s", "t">> >>

AnyIn(phrases, q_lower) == \E i \in 1..Len(phrases) : Contains(q_lower, phrases[i])

\* The pain-point phrases tested before the feature phrases.
classify_question_pain_first(question) ==
    LET q_lower == lower(question)
    IN  IF AnyIn(PAIN_POINT_PHRASES, q_lower) THEN "pain_point"
        ELSE IF AnyIn(FEATURE_PHRASES, q_lower) THEN "feature"
        ELSE IF AnyIn(COMPARISON_PHRASES, q_lower) THEN "comparison"
        ELSE IF AnyIn(EVIDENCE_PHRASES, q_lower) THEN "evidence"
        ELSE IF AnyIn(HOW_TO_PHRASES, q_lower) THEN "how_to"
        ELSE IF AnyIn(RECOMMENDATION_PHRASES, q_lower) THEN "recommendation"
        ELSE "product"

classify_question(question) ==
    LET q_lower == lower(question)
    IN  IF AnyIn(FEATURE_PHRASES, q_lower) THEN "feature"
        ELSE IF AnyIn(PAIN_POINT_PHRASES, q_lower) THEN "pain_point"
        ELSE IF AnyIn(COMPARISON_PHRASES, q_lower) THEN "comparison"
        ELSE IF AnyIn(EVIDENCE_PHRASES, q_lower) THEN "evidence"
        ELSE IF AnyIn(HOW_TO_PHRASES, q_lower) THEN "how_to"
        ELSE IF AnyIn(RECOMMENDATION_PHRASES, q_lower) THEN "recommendation"
        ELSE "product"

(***************************************************************************)
(* The knowledge graph the answering pipeline reads.  A property that may  *)
(* be null is a list: <<>> for null, <<v>> for the value v.  A node        *)
(* carries the neighbours its queries traverse.                            *)
(***************************************************************************)
Null == <<>>
Some(v) == <<v>>
IsNull(o) == Len(o) = 0
Value(o) == o[1]

\* {} and "not data"
EmptyDict == <<>>
IsEmpty(d) == DOMAIN d = {}

EmptyKG == [Feature |-> <<>>, PainPoint |-> <<>>, Product |-> <<>>, Claim |-> <<>>]

\* toLower(prop) CONTAINS toLower($keyword); null CONTAINS x is not true.
ContainsLower(prop, keyword) ==
    ~IsNull(prop) /\ Contains(lower(Value(prop)), lower(keyword))

\* collect(DISTINCT {...}) over the rows of an OPTIONAL MATCH: the distinct
\* maps in row order; an unmatched OPTIONAL MATCH leaves one row of nulls,
\* hence one map of nulls.
RECURSIVE Distinct(_, _)
Distinct(s, seen) ==
    IF s = <<>> THEN seen
    ELSE Distinct(Tail(s),
                  IF \E i \in 1..Len(seen) : seen[i] = Head(s)
                  THEN seen ELSE Append(seen, Head(s)))

NullEvidence ==
    [claim |-> Null, source |-> Null, url |-> Null, credibility |-> Null,
     quote |-> Null]

CollectEvidence(support) ==
    IF support = <<>> THEN <<NullEvidence>> ELSE Distinct(support, <<>>)

\* The query of retrieve_feature_info for one keyword: a row per matching
\* feature.
feature_query(kg, keyword) ==
    LET hit == SelectIdx(kg.Feature,
                 {i \in 1..Len(kg.Feature) :
                     \/ ContainsLower(Some(kg.Feature[i].name), keyword)
                     \/ ContainsLower(kg.Feature[i].description, keyword)}, 1)
    IN  [i \in 1..Len(hit) |->
            [feature |-> hit[i].name,
             description |-> hit[i].description,
             relieves |-> Distinct(hit[i].relieves, <<>>),
             products |-> Distinct(hit[i].products, <<>>),
             evidence |-> CollectEvidence(hit[i].support)]]

RECURSIVE FirstMatch(_, _, _, _)
\* for keyword in keywords: results = query(keyword); if results: return
\* results[0] -- with the keywords queried so far.
FirstMatch(Query(_, _), kg, keywords, issued) ==
    IF keywords = <<>> THEN [data |-> EmptyDict, issued |-> issued]
    ELSE LET results == Query(kg, Head(keywords))
         IN  IF results # <<>>
             THEN [data |-> results[1], issued |-> Append(issued, Head(keywords))]
             ELSE FirstMatch(Query, kg, Tail(keywords),
                             Append(issued, Head(keywords)))

LongerThan3(word) == Len(word) > 3
\* The seed filter of the evidence branch with the bound of the other two.
LongerThan4Loose(word) == Len(word) > 3

LongerThan4(word) == Len(word) > 4

\* A retrieval that sends the query of every keyword, matched or not.
retrieve_feature_info_all(kg, question) ==
    [data |-> FirstMatch(feature_query, kg,
                         Filter(split(question), LongerThan3), <<>>).data,
     issued |-> Filter(split(question), LongerThan3)]

retrieve_feature_info(kg, question) ==
    FirstMatch(feature_query, kg, Filter(split(question), LongerThan3), <<>>)

RECURSIVE SolutionPairs(_)
\* (pp)-[:RELIEVED_BY]->(feature)-[:IMPLEMENTED_IN]->(product): a row per
\* feature and product of it.
SolutionPairs(relieved_by) ==
    IF relieved_by = <<>> THEN <<>>
    ELSE LET f == Head(relieved_by)
         IN  [i \in 1..Len(f.products) |->
                 [feature |-> Some(f.name), product |-> Some(f.products[i])]]
             \o SolutionPairs(Tail(relieved_by))

NullSolution == [feature |-> Null, product |-> Null]

CollectSolutions(relieved_by) ==
    IF SolutionPairs(relieved_by) = <<>> THEN <<NullSolution>>
    ELSE Distinct(SolutionPairs(relieved_by), <<>>)

\* The query of retrieve_pain_point_solution for one keyword.
pain_point_query(kg, keyword) ==
    LET hit == SelectIdx(kg.PainPoint,
                 {i \in 1..Len(kg.PainPoint) :
                     \/ ContainsLower(Some(kg.PainPoint[i].name), keyword)
                     \/ ContainsLower(kg.PainPoint[i].description, keyword)}, 1)
    IN  [i \in 1..Len(hit) |->
            [pain_point |-> hit[i].name,
             description |-> hit[i].description,
             severity |-> hit[i].severity,
             reported_cases |-> hit[i].evidence_count,
             solutions |-> CollectSolutions(hit[i].relieved_by),
             evidence |-> CollectEvidence(hit[i].support)]]

retrieve_pain_point_solution(kg, question) ==
    FirstMatch(pain_point_query, kg, Filter(split(question), LongerThan3), <<>>)

\* The names of the features IMPLEMENTED_IN the products called `name`.
FeaturesOf(kg, name) ==
    LET at == SelectIdx(kg.Product,
                 {i \in 1..Len(kg.Product) : kg.Product[i].name = name}, 1)
        RECURSIVE All(_)
        All(ps) == IF ps = <<>> THEN <<>> ELSE Head(ps).features \o All(Tail(ps))
    IN  All(at)

In(x, s) == \E i \in 1..Len(s) : s[i] = x

\* GEOQueries.compare_product_features: the second MATCH yields no row, and
\* so the query none, when the competitor has no feature.
compare_product_features(kg, our_product, competitor_product) ==
    LET our_feature_list == FeaturesOf(kg, our_product)
        comp_feature_list == FeaturesOf(kg, competitor_product)
        NotInComp(f) == ~In(f, comp_feature_list)
        NotInOur(f) == ~In(f, our_feature_list)
        InComp(f) == In(f, comp_feature_list)
        unique_to_us == Filter(our_feature_list, NotInComp)
        unique_to_competitor == Filter(comp_feature_list, NotInOur)
        shared_features == Filter(our_feature_list, InComp)
    IN  IF comp_feature_list = <<>> THEN EmptyDict
        ELSE [unique_to_us |-> unique_to_us,
              unique_to_competitor |-> unique_to_competitor,
              shared_features |-> shared_features,
              our_advantage_count |-> Len(unique_to_us),
              their_advantage_count |-> Len(unique_to_competitor),
              parity_count |-> Len(shared_features)]

retrieve_product_comparison(kg, product1, product2) ==
    [data |-> compare_product_features(kg, product1, product2),
     issued |-> <<product1, product2>>]

SumCredibility(support) ==
    LET RECURSIVE Sum(_)
        Sum(s) == IF s = <<>> THEN 0
                  ELSE (IF IsNull(Head(s).credibility) THEN 0
                        ELSE Value(Head(s).credibility)) + Sum(Tail(s))
    IN  Sum(support)

\* ORDER BY confidence DESC, avg_credibility DESC (averages compared as
\* fractions).
RowBefore(a, b) ==
    \/ a.confidence > b.confidence
    \/ /\ a.confidence = b.confidence
       /\ a.avg_credibility[1] * b.avg_credibility[2]
            >= b.avg_credibility[1] * a.avg_credibility[2]

RECURSIVE InsertRow(_, _)
InsertRow(s, x) ==
    IF s = <<>> THEN <<x>>
    ELSE IF RowBefore(Head(s), x) THEN <<Head(s)>> \o InsertRow(Tail(s), x)
         ELSE <<x>> \o s

RECURSIVE SortRows(_)
SortRows(s) ==
    IF s = <<>> THEN <<>>
    ELSE InsertRow(SortRows(SubSeq(s, 1, Len(s) - 1)), s[Len(s)])

\* GEOQueries.verify_claim_with_evidence: a row per claim whose text
\* contains claim_text and that has supporting evidence.
verify_claim_with_evidence(kg, claim_text) ==
    LET hit == SelectIdx(kg.Claim,
                 {i \in 1..Len(kg.Claim) :
                     /\ Contains(kg.Claim[i].text, claim_text)
                     /\ kg.Claim[i].support # <<>>}, 1)
    IN  SortRows([i \in 1..Len(hit) |->
            [claim |-> hit[i].text,
             confidence |-> hit[i].confidence,
             status |-> hit[i].verification_status,
             subject_type |-> hit[i].subject_type,
             subject_name |-> hit[i].subject_name,
             supporting_evidence |-> hit[i].support,
             avg_credibility |-> <<SumCredibility(hit[i].support),
                                   Len(hit[i].support)>>]])

retrieve_evidence_for_claim(kg, claim_keyword) ==
    LET results == verify_claim_with_evidence(kg, claim_keyword)
    IN  [data |-> IF results # <<>> THEN results[1] ELSE EmptyDict,
         issued |-> <<claim_keyword>>]

(***************************************************************************)
(* Answer generation.  A call yields [raised |-> FALSE, answer |-> Answer] *)
(* or [raised |-> TRUE, error |-> the exception].                          *)
(***************************************************************************)
Answer(question, answer_text, citations, confidence, graph_path) ==
    [question |-> question, answer_text |-> answer_text, citations |-> citations,
     confidence |-> confidence, graph_path |-> graph_path]

Returns(answer) == [raised |-> FALSE, answer |-> answer]
Raises(error) == [raised |-> TRUE, error |-> error]

NoFeatureText == "I don't have information about that feature in the knowledge graph."
NoSolutionText == "I don't have specific solutions for that issue in the knowledge graph."
NoComparisonText == "I don't have enough information to compare those products."
TwoProductsText == "Please specify two products to compare."
NotSureText == "I'm not sure how to answer that type of question yet."

\* An f-string's rendering of a nullable text or number.
Show(o) == IF IsNull(o) THEN "None" ELSE Str(Value(o))
ShowInt(o) == IF IsNull(o) THEN "None" ELSE ToString(Value(o))

StrAll(names) == [i \in 1..Len(names) |-> Str(names[i])]

HasSource(ev) == ~IsNull(ev.source)

Citation(ev, quote) ==
    [source |-> Value(ev.source), url |-> ev.url,
     credibility_score |-> ev.credibility, quote |-> quote]

FeatureCitations(evidence) ==
    LET sourced == Filter(evidence, HasSource)
    IN  [i \in 1..Len(sourced) |-> Citation(sourced[i], sourced[i].quote)]

PainPointCitations(evidence) ==
    LET sourced == Filter(evidence, HasSource)
    IN  [i \in 1..Len(sourced) |-> Citation(sourced[i], Null)]

\* min(1.0, len(citations) * 0.3 + 0.4), in tenths.
FeatureConfidenceUncapped(citations) == Len(citations) * 3 + 4

FeatureConfidence(citations) == Min(10, Len(citations) * 3 + 4)

\* The answer composed from a non-empty record; data['feature'] raises
\* KeyError for a record without that key.
FeatureAnswerFrom(data) ==
    IF "feature" \notin DOMAIN data THEN Raises("KeyError")
    ELSE
    LET citations == FeatureCitations(data.evidence)
        answer_parts ==
            <<Str(data.feature) \o " is a feature that " \o Show(data.description)
                \o ".">>
            \o (IF data.relieves # <<>>
                THEN <<"It helps relieve "
                         \o Join(", ", StrAll(Take(data.relieves, 3))) \o ".">>
                ELSE <<>>)
            \o (IF data.products # <<>>
                THEN <<"You can find this feature in "
                         \o Join(", ", StrAll(Take(data.products, 3))) \o ".">>
                ELSE <<>>)
        path == <<"Feature">>
                \o (IF data.relieves # <<>> THEN <<"PainPoint">> ELSE <<>>)
                \o (IF data.products # <<>> THEN <<"Product">> ELSE <<>>)
                \o (IF citations # <<>> THEN <<"Claim", "Evidence">> ELSE <<>>)
    IN  Returns(Answer(<<>>, Join(" ", answer_parts), Take(citations, 3),
                       FeatureConfidence(citations), path))

generate_feature_answer(data) ==
    IF IsEmpty(data)
    THEN Returns(Answer(<<>>, NoFeatureText, <<>>, 0, <<>>))
    ELSE FeatureAnswerFrom(data)

HasFeature(s) == ~IsNull(s.feature)
HasProduct(s) == ~IsNull(s.product)

\* min(1.0, len(solutions) * 0.3 + len(citations) * 0.2 + 0.2), in tenths.
PainPointConfidence(solutions, citations) ==
    Min(10, Len(solutions) * 3 + Len(citations) * 2 + 2)

\* The answer composed from a non-empty record; severity >= 7 and
\* reported_cases > 0 raise TypeError on None.
PainPointAnswerFrom(data) ==
    IF IsNull(data.severity) \/ IsNull(data.reported_cases)
    THEN Raises("TypeError")
    ELSE
    LET severity == Value(data.severity)
        severity_text == IF severity >= 7 THEN "significant" ELSE "moderate"
        features == Filter(data.solutions, HasFeature)
        solutions == Take([i \in 1..Len(features) |-> Str(Value(features[i].feature))], 3)
        withProduct == Filter(data.solutions, HasProduct)
        products == Take([i \in 1..Len(withProduct) |->
                             Str(Value(withProduct[i].product))], 2)
        citations == PainPointCitations(data.evidence)
        answer_parts ==
            <<Str(data.pain_point) \o " is a " \o severity_text
                \o " issue (severity: " \o ToString(severity) \o "/10).">>
            \o (IF Value(data.reported_cases) > 0
                THEN <<"It has been reported " \o ShowInt(data.reported_cases)
                         \o " times.">>
                ELSE <<>>)
            \o (IF data.solutions # <<>> /\ solutions # <<>>
                THEN <<"Solutions include: " \o Join(", ", solutions) \o ".">>
                     \o (IF products # <<>>
                         THEN <<"You can find these features in "
                                  \o Join(" or ", products) \o ".">>
                         ELSE <<>>)
                ELSE <<>>)
    IN  Returns(Answer(<<>>, Join(" ", answer_parts), Take(citations, 3),
                       PainPointConfidence(data.solutions, citations),
                       <<"PainPoint", "Feature", "Product", "Evidence">>))

\* A fallback that reports the confidence of the unclassifiable branch.
generate_pain_point_answer_low(data) ==
    IF IsEmpty(data)
    THEN Returns(Answer(<<>>, NoSolutionText, <<>>, 2, <<>>))
    ELSE PainPointAnswerFrom(data)

generate_pain_point_answer(data) ==
    IF IsEmpty(data)
    THEN Returns(Answer(<<>>, NoSolutionText, <<>>, 0, <<>>))
    ELSE PainPointAnswerFrom(data)

ComparisonAnswerFrom(data) ==
    LET our_count == data.our_advantage_count
        their_count == data.their_advantage_count
        answer_parts ==
            (IF data.unique_to_us # <<>>
             THEN <<"Unique features: "
                      \o Join(", ", StrAll(Take(data.unique_to_us, 3))) \o ".">>
             ELSE <<>>)
            \o (IF data.unique_to_competitor # <<>>
                THEN <<"Competitor has: "
                         \o Join(", ", StrAll(Take(data.unique_to_competitor, 3)))
                         \o ".">>
                ELSE <<>>)
            \o (IF data.shared_features # <<>>
                THEN <<"They share " \o ToString(Len(data.shared_features))
                         \o " common features.">>
                ELSE <<>>)
            \o (IF our_count > their_count
                THEN <<"Our product has " \o ToString(our_count)
                         \o " unique advantages vs " \o ToString(their_count)
                         \o " for the competitor.">>
                ELSE IF their_count > our_count
                THEN <<"The competitor has " \o ToString(their_count)
                         \o " unique features vs " \o ToString(our_count)
                         \o " for us.">>
                ELSE <<"Both products have similar feature counts.">>)
    IN  Returns(Answer(<<>>, Join(" ", answer_parts), <<>>, 7,
                       <<"Product", "Feature">>))

generate_comparison_answer(data) ==
    IF IsEmpty(data) \/ data.unique_to_us = <<>>
    THEN Returns(Answer(<<>>, NoComparisonText, <<>>, 3, <<>>))
    ELSE ComparisonAnswerFrom(data)

(***************************************************************************)
(* GraphRAG.answer_question                                                *)
(***************************************************************************)
Space == <<" ">>
Vs == <<" ", "v", "s", " ">>
Or == <<" ", "o", "r", " ">>

\* The parts without the check of their length.
ProductNamesUnfiltered(question) ==
    LET parts == SplitOn(Replace(lower(question), Vs, Or), Or, <<>>)
    IN  [i \in 1..Len(parts) |-> strip(parts[i])]

\* [p.strip() for p in question.lower().replace(" vs ", " or ").split(" or ")
\*  if len(p.strip()) > 2]
ProductNames(question) ==
    LET parts == SplitOn(Replace(lower(question), Vs, Or), Or, <<>>)
        stripped == [i \in 1..Len(parts) |-> strip(parts[i])]
        LongerThan2(p) == Len(p) > 2
    IN  Filter(stripped, LongerThan2)

\* Steps 1 and 2: the category, what was retrieved with the queries issued,
\* and the generator's answer.
Step(q_type, got, out) ==
    [q_type |-> q_type, data |-> got.data, issued |-> got.issued, out |-> out]

\* The if/elif chain of step 2 without "or q_type == QuestionType.PRODUCT".
BranchOfWithoutProduct(q_type) ==
    IF q_type = "feature" \/ q_type = "how_to" THEN "feature_info"
    ELSE IF q_type = "pain_point" THEN "pain_point_solution"
    ELSE IF q_type = "comparison" THEN "product_comparison"
    ELSE IF q_type = "evidence" THEN "evidence_for_claim"
    ELSE IF q_type = "recommendation" THEN "pain_point_solution"
    ELSE "else"

\* The if/elif chain of step 2: the branch taken for a category.
BranchOf(q_type) ==
    IF q_type = "feature" \/ q_type = "how_to" THEN "feature_info"
    ELSE IF q_type = "pain_point" THEN "pain_point_solution"
    ELSE IF q_type = "comparison" THEN "product_comparison"
    ELSE IF q_type = "evidence" THEN "evidence_for_claim"
    ELSE IF q_type = "recommendation" \/ q_type = "product"
    THEN "pain_point_solution"
    ELSE "else"

Dispatch(kg, question, q_type) ==
    LET branch == BranchOf(q_type)
    IN  IF branch = "feature_info"
        THEN LET got == retrieve_feature_info(kg, question)
             IN  Step(q_type, got, generate_feature_answer(got.data))
        ELSE IF branch = "pain_point_solution"
        THEN LET got == retrieve_pain_point_solution(kg, question)
             IN  Step(q_type, got, generate_pain_point_answer(got.data))
        ELSE IF branch = "product_comparison"
        THEN LET products == ProductNames(question)
             IN  IF Len(products) >= 2
                 THEN LET got == retrieve_product_comparison(kg, products[1],
                                                             products[2])
                      IN  Step(q_type, got, generate_comparison_answer(got.data))
                 ELSE Step(q_type, [data |-> EmptyDict, issued |-> <<>>],
                           Returns(Answer(question, TwoProductsText, <<>>, 0, <<>>)))
        ELSE IF branch = "evidence_for_claim"
        THEN LET keywords == Filter(split(question), LongerThan4)
                 got == retrieve_evidence_for_claim(kg,
                            IF keywords # <<>> THEN keywords[1] ELSE <<>>)
             IN  Step(q_type, got, generate_feature_answer(got.data))
        ELSE Step(q_type, [data |-> EmptyDict, issued |-> <<>>],
                  Returns(Answer(question, NotSureText, <<>>, 2, <<>>)))

\* Step 3 left out: the generators' question="" (the empty text) stays.
answer_question_blank(kg, question) ==
    Dispatch(kg, question, classify_question(question))

answer_question(kg, question) ==
    LET r == Dispatch(kg, question, classify_question(question))
    IN  IF r.out.raised THEN r
        ELSE [r EXCEPT !.out.answer.question = question]

(***************************************************************************)
(* Inputs of the answering pipeline: questions and knowledge graphs        *)
(***************************************************************************)
Q_WhatIsCoolingGel ==
    <<"W", "h", "a", "t", " ", "i", "s", " ", "c", "o", "o", "l", "i", "n",
      "g", " ", "g", "e", "l", "?">>

Q_HowToSolveBackPain ==
    <<"H", "o", "w", " ", "t", "o", " ", "s", "o", "l", "v", "e", " ", "b",
      "a", "c", "k", " ", "p", "a", "i", "n", "?">>

Q_WhatIsTheBestWay ==
    <<"W", "h", "a", "t", " ", "i", "s", " ", "t", "h", "e", " ", "b", "e",
      "s", "t", " ", "w", "a", "y", " ", "t", "o", " ", "f", "i", "x", " ",
      "b", "a", "c", "k", " ", "p", "a", "i", "n", "?">>

Q_AlphaVsBeta ==
    <<"a", "l", "p", "h", "a", " ", "v", "s", " ", "b", "e", "t", "a">>

Q_BetaVsAlpha ==
    <<"B", "e", "t", "a", " ", "v", "s", " ", "A", "l", "p", "h", "a">>

Q_CompareXVsY ==
    <<"C", "o", "m", "p", "a", "r", "e", " ", "X", " ", "v", "s", " ", "Y">>

Q_WhatEvidence ==
    <<"W", "h", "a", "t", " ", "e", "v", "i", "d", "e", "n", "c", "e", " ",
      "s", "u", "p", "p", "o", "r", "t", "s", " ", "t", "h", "i", "s", "?">>

Q_HowDoesCoolingGelWork ==
    <<"H", "o", "w", " ", "d", "o", "e", "s", " ", "c", "o", "o", "l", "i",
      "n", "g", " ", "g", "e", "l", " ", "w", "o", "r", "k", "?">>

Q_WhichMattress ==
    <<"W", "h", "i", "c", "h", " ", "m", "a", "t", "t", "r", "e", "s", "s",
      " ", "s", "h", "o", "u", "l", "d", " ", "I", " ", "b", "u", "y", "?">>

Q_MattressForBack ==
    <<"m", "a", "t", "t", "r", "e", "s", "s", " ", "f", "o", "r", " ", "b",
      "a", "c", "k">>

Q_Gel == <<"g", "e", "l">>

RagQuestions ==
    {Q_WhatIsCoolingGel,
     Q_HowToSolveBackPain,
     Q_WhatIsTheBestWay,
     Q_AlphaVsBeta,
     Q_BetaVsAlpha,
     Q_CompareXVsY,
     Q_WhatEvidence,
     Q_HowDoesCoolingGelWork,
     Q_WhichMattress,
     Q_MattressForBack,
     Q_Gel}

CoolingGel == <<"C", "o", "o", "l", "i", "n", "g", " ", "G", "e", "l">>

MemoryFoam == <<"M", "e", "m", "o", "r", "y", " ", "F", "o", "a", "m">>

BackPain == <<"B", "a", "c", "k", " ", "P", "a", "i", "n">>

Alpha == <<"a", "l", "p", "h", "a">>

Beta == <<"b", "e", "t", "a">>

CoolsTheBack ==
    <<"c", "o", "o", "l", "s", " ", "t", "h", "e", " ", "b", "a", "c", "k">>

EvidenceShows ==
    <<"e", "v", "i", "d", "e", "n", "c", "e", " ", "s", "h", "o", "w", "s",
      " ", "g", "e", "l", " ", "c", "o", "o", "l", "s">>

GelCools == <<"g", "e", "l", " ", "c", "o", "o", "l", "s">>

\* The words the classifier's questions are made of.
Vocabulary ==
    { <<"W", "h", "a", "t">>,
      <<"i", "s">>,
      <<"f", "i", "x">>,
      <<"v", "s">>,
      <<"s", "t", "u", "d", "y">>,
      <<"h", "o", "w">>,
      <<"t", "o">>,
      <<"b", "e", "s", "t">>,
      <<"g", "e", "l">>,
      <<"p", "r", "e", "f", "i", "x">> }

\* Longest question, in words, handed to classify_question.
MaxWords == 3

RECURSIVE JoinWords(_)
JoinWords(words) ==
    IF words = <<>> THEN <<>>
    ELSE IF Len(words) = 1 THEN words[1]
    ELSE words[1] \o Space \o JoinWords(Tail(words))

Questions ==
    {JoinWords(ws) : ws \in SeqsUpTo(Vocabulary, MaxWords)} \cup RagQuestions

\* Most evidence a node of a knowledge graph is linked to.
MaxEvidence == 4

RECURSIVE SortedInts(_)
SortedInts(S) ==
    IF S = {} THEN <<>>
    ELSE LET x == CHOOSE y \in S : \A z \in S : y <= z
         IN  <<x>> \o SortedInts(S \ {x})

\* Evidence 0 has no source property; the others do.
EvidenceEntry(i) ==
    [claim |-> Some("claim"),
     source |-> IF i = 0 THEN Null ELSE Some("source " \o ToString(i)),
     url |-> IF i % 2 = 0 THEN Null ELSE Some("https://e/" \o ToString(i)),
     credibility |-> Some(5 + (i % 5)),
     quote |-> IF i % 2 = 0 THEN Some("quote") ELSE Null]

SupportLists ==
    { [k \in 1..Cardinality(S) |-> EvidenceEntry(SortedInts(S)[k])] :
        S \in SUBSET (0..MaxEvidence) }

FeatureKGs ==
    { [EmptyKG EXCEPT !.Feature =
        << [name |-> CoolingGel, description |-> d, relieves |-> r,
            products |-> p, support |-> e] >>] :
        d \in {Null, Some(CoolsTheBack)},
        r \in {<<>>, <<BackPain>>},
        p \in {<<>>, <<Alpha, Beta>>},
        e \in SupportLists }

RelievedByOptions ==
    { <<>>,
      << [name |-> CoolingGel, products |-> <<>>] >>,
      << [name |-> CoolingGel, products |-> <<Alpha>>] >>,
      << [name |-> CoolingGel, products |-> <<Alpha, Beta>>],
         [name |-> MemoryFoam, products |-> <<Alpha>>] >> }

\* (severity, evidence_count) of a pain point; either may be unset.
SeverityOptions ==
    { <<Null, Some(5)>>, <<Some(3), Null>>, <<Some(3), Some(0)>>,
      <<Some(8), Some(5)>> }

PainPointKGs ==
    { [EmptyKG EXCEPT !.PainPoint =
        << [name |-> BackPain, description |-> Null, severity |-> sv[1],
            evidence_count |-> sv[2], relieved_by |-> rb, support |-> e] >>] :
        sv \in SeverityOptions, rb \in RelievedByOptions, e \in SupportLists }

FeatureSets == {<<>>, <<CoolingGel>>, <<MemoryFoam>>, <<CoolingGel, MemoryFoam>>}

ProductKGs ==
    { [EmptyKG EXCEPT !.Product =
        << [name |-> Alpha, features |-> a], [name |-> Beta, features |-> b] >>] :
        a \in FeatureSets, b \in FeatureSets }

ClaimNode(text, confidence, support) ==
    [text |-> text, confidence |-> confidence, verification_status |-> "verified",
     subject_type |-> "Feature", subject_name |-> "Cooling Gel",
     support |-> support]

ClaimKGs ==
    { [EmptyKG EXCEPT !.Claim = <<ClaimNode(EvidenceShows, 8, <<EvidenceEntry(1)>>)>>],
      [EmptyKG EXCEPT !.Claim = <<ClaimNode(EvidenceShows, 8, <<>>)>>],
      [EmptyKG EXCEPT !.Claim =
          <<ClaimNode(GelCools, 6, <<EvidenceEntry(1)>>),
            ClaimNode(EvidenceShows, 9, <<EvidenceEntry(0), EvidenceEntry(2)>>)>>] }

KnowledgeGraphs ==
    {EmptyKG} \cup FeatureKGs \cup PainPointKGs \cup ProductKGs \cup ClaimKGs

(***************************************************************************)
(* Neo4jImporter.import_full_dataset as a process                          *)
(***************************************************************************)
VARIABLES
    graph,          \* the Neo4j store
    upstream,       \* what the content-graph service holds
    pc,             \* "idle" | "login" | "begin" | "end"
    phase,          \* the phase the run is at (a key of stats)
    authenticated,  \* InfraNodusClient.authenticated of the run's client
    locals,         \* concepts, communities, graph_data, gaps of the run
    stats,          \* the statistics dict of the run
    outcome,        \* "none" | "running" | "aborted" | "returned" | "raised"
    fetches,        \* GETs the run sent to the service
    queries,        \* Cypher statements the run executed
    started,        \* the phases the run has started, in order
    completed,      \* the phases the run has completed, in order
    prev,           \* node/relationship counts after the run before the last
    cur,            \* node/relationship counts after the last run
    kg,             \* the knowledge graph the answering pipeline reads
    question,       \* the question of the last answer_question call
    result,         \* what that call retrieved and returned or raised
    asked,          \* the question handed to classify_question
    q_type,         \* the QuestionType it returned
    calls,          \* the concurrent answer_question calls, as their callers see them
    frames,         \* the local variables of each call in progress
    geo,            \* the graph the analytical queries run on
    last,           \* the last analytical query: its arguments and rows
    runs,           \* the concurrent import_full_dataset runs: their positions
    pipe            \* the run_pipeline call: its position, statistics and effects

importVars ==
    <<graph, upstream, pc, phase, authenticated, locals, stats, outcome,
      fetches, queries, started, completed, prev, cur>>

ragVars == <<kg, question, result>>

classifyVars == <<asked, q_type>>

callVars == <<calls, frames>>

geoVars == <<geo, last>>

sessionVars == <<runs, pipe>>

vars == <<importVars, ragVars, classifyVars, callVars, geoVars, sessionVars>>

PhaseOrder ==
    <<"keywords", "clusters", "cluster_links", "cooccurrences", "gaps", "prompts">>

\* The statement order of import_full_dataset: the phase after p, "" after
\* the last.
PhaseAfterSwapped(p) ==
    CASE p = "keywords" -> "cluster_links"
      [] p = "cluster_links" -> "clusters"
      [] p = "clusters" -> "cooccurrences"
      [] p = "cooccurrences" -> "gaps"
      [] p = "gaps" -> "prompts"
      [] OTHER -> ""

PhaseAfter(p) ==
    CASE p = "keywords" -> "clusters"
      [] p = "clusters" -> "cluster_links"
      [] p = "cluster_links" -> "cooccurrences"
      [] p = "cooccurrences" -> "gaps"
      [] p = "gaps" -> "prompts"
      [] OTHER -> ""

\* if not infranodus.login(): return stats
AfterLoginIgnoringFailure(ok) == "begin"

AfterLogin(ok) == IF ok THEN "begin" ELSE "idle"

NoLocals == [concepts |-> <<>>, communities |-> <<>>,
             graph_data |-> [nodes |-> <<>>, edges |-> <<>>], gaps |-> <<>>]

\* The upstream call a phase makes before its statement.
FetchFor(p, up, loc) ==
    CASE p = "keywords" -> [loc EXCEPT !.concepts = get_concepts(up, ConceptLimit)]
      [] p = "clusters" -> [loc EXCEPT !.communities = get_communities(up)]
      [] p = "cooccurrences" -> [loc EXCEPT !.graph_data = get_graph(up)]
      [] p = "gaps" -> [loc EXCEPT !.gaps = get_gaps(up)]
      [] OTHER -> loc

Fetches(p) == p \in {"keywords", "clusters", "cooccurrences", "gaps"}

\* The statement of a phase: the graph after it and the count it returns.
StatementFor(p, g, loc) ==
    CASE p = "keywords" -> import_keywords(g, loc.concepts)
      [] p = "clusters" -> import_topic_clusters(g, loc.communities)
      [] p = "cluster_links" -> link_keywords_to_clusters(g, loc.concepts)
      [] p = "cooccurrences" -> import_cooccurrences(g, loc.graph_data)
      [] p = "gaps" -> import_gaps(g, loc.gaps)
      [] OTHER -> generate_prompts_from_gaps(g, loc.gaps)

Counts(g) ==
    [Keyword |-> Len(g.Keyword), TopicCluster |-> Len(g.TopicCluster),
     Gap |-> Len(g.Gap), Prompt |-> Len(g.Prompt),
     BELONGS_TO |-> Len(g.BELONGS_TO), CO_OCCURS_WITH |-> Len(g.CO_OCCURS_WITH),
     SUGGESTS |-> Len(g.SUGGESTS)]

NoCounts ==
    [Keyword |-> -1, TopicCluster |-> -1, Gap |-> -1, Prompt |-> -1,
     BELONGS_TO |-> -1, CO_OCCURS_WITH |-> -1, SUGGESTS |-> -1]

RECURSIVE RunPhases(_, _, _, _)
\* The graph after the phases from p on, all succeeding.
RunPhases(p, g, up, loc) ==
    IF p = "" THEN g
    ELSE LET l2 == FetchFor(p, up, loc)
         IN  RunPhases(PhaseAfter(p), StatementFor(p, g, l2).graph, up, l2)

\* What earlier imports left in the store: nothing, or the import of a
\* dataset the service held before.
SeedDataset ==
    [status |-> 200,
     nodes |-> << [name |-> "k3", betweenness_centrality |-> 1, degree |-> 1,
                   community |-> "cA"],
                  [name |-> "k2", betweenness_centrality |-> 2, degree |-> 1,
                   community |-> "cB"] >>,
     edges |-> <<Edge("k3", "k2", 3)>>,
     has_gaps |-> FALSE, gaps |-> <<>>]

SeedGraphs ==
    {EmptyGraph, RunPhases("keywords", EmptyGraph, SeedDataset, NoLocals)}

\* No question has been asked or classified.
NoResult == [q_type |-> "none"]

RagIdle == kg = EmptyKG /\ question = <<>> /\ result = NoResult

ClassifyIdle == asked = <<>> /\ q_type = "none"

\* Most answer_question calls in progress at once.
MaxCalls == 2

Calls == 1..MaxCalls

\* The locals of answer_question before its first statement.
NoFrame ==
    [question |-> <<>>, q_type |-> "none", keywords |-> <<>>, issued |-> <<>>,
     data |-> EmptyDict, out |-> Raises("none")]

NoCall ==
    [pc |-> "idle", question |-> <<>>, out |-> Raises("none"), overlapped |-> FALSE]

CallsIdle == calls = [c \in Calls |-> NoCall] /\ frames = [c \in Calls |-> NoFrame]

EmptyGeo == [TopicCluster |-> <<>>, BRIDGES |-> <<>>, Asset |-> <<>>, Prompt |-> <<>>]

NoQuery == [op |-> "none"]

GeoIdle == geo = EmptyGeo /\ last = NoQuery

\* No concurrent import runs and no run_pipeline call.
NoRuns == <<>>

NoPipe == [pc |-> "idle"]

SessionsIdle == runs = NoRuns /\ pipe = NoPipe

ImportInit ==
    /\ RagIdle
    /\ ClassifyIdle
    /\ CallsIdle
    /\ SessionsIdle
    /\ GeoIdle
    /\ graph \in SeedGraphs
    /\ upstream \in Upstreams
    /\ pc = "idle"
    /\ phase = ""
    /\ authenticated = FALSE
    /\ locals = NoLocals
    /\ stats = <<>>
    /\ outcome = "none"
    /\ fetches = 0
    /\ queries = 0
    /\ started = <<>>
    /\ completed = <<>>
    /\ prev = NoCounts
    /\ cur = NoCounts

\* import_full_dataset is called: stats = {}, a new client.
StartImport ==
    /\ pc = "idle"
    /\ pc' = "login"
    /\ phase' = ""
    /\ authenticated' = FALSE
    /\ locals' = NoLocals
    /\ stats' = <<>>
    /\ outcome' = "running"
    /\ fetches' = 0
    /\ queries' = 0
    /\ started' = <<>>
    /\ completed' = <<>>
    /\ UNCHANGED <<graph, upstream, prev, cur>>
    /\ UNCHANGED <<ragVars, classifyVars, callVars, geoVars, sessionVars>>

\* infranodus.login() answers; on failure the call returns the empty stats.
Login ==
    /\ pc = "login"
    /\ \E ok \in BOOLEAN :
        /\ authenticated' = ok
        /\ pc' = AfterLogin(ok)
        /\ phase' = IF pc' = "begin" THEN "keywords" ELSE ""
        /\ outcome' = IF pc' = "idle" THEN "aborted" ELSE "running"
        /\ prev' = IF pc' = "idle" THEN NoCounts ELSE prev
        /\ cur' = IF pc' = "idle" THEN NoCounts ELSE cur
    /\ UNCHANGED <<graph, upstream, locals, stats, fetches, queries, started,
                   completed>>
    /\ UNCHANGED <<ragVars, classifyVars, callVars, geoVars, sessionVars>>

\* A phase starts: its upstream data is fetched.
BeginPhase ==
    /\ pc = "begin"
    /\ started' = Append(started, phase)
    /\ locals' = FetchFor(phase, upstream, locals)
    /\ fetches' = IF Fetches(phase) THEN fetches + 1 ELSE fetches
    /\ pc' = "end"
    /\ UNCHANGED <<graph, upstream, phase, authenticated, stats, outcome,
                   queries, completed, prev, cur>>
    /\ UNCHANGED <<ragVars, classifyVars, callVars, geoVars, sessionVars>>

\* The phase's statement runs and its count is stored; after the last phase
\* the call returns stats.
EndPhase ==
    /\ pc = "end"
    /\ LET out == StatementFor(phase, graph, locals)
           next == PhaseAfter(phase)
       IN  /\ graph' = out.graph
           /\ stats' = (phase :> out.count) @@ stats
           /\ queries' = queries + 1
           /\ completed' = Append(completed, phase)
           /\ phase' = next
           /\ pc' = IF next = "" THEN "idle" ELSE "begin"
           /\ outcome' = IF next = "" THEN "returned" ELSE "running"
           /\ prev' = IF next = "" THEN cur ELSE prev
           /\ cur' = IF next = "" THEN Counts(out.graph) ELSE cur
    /\ UNCHANGED <<upstream, authenticated, locals, fetches, started>>
    /\ UNCHANGED <<ragVars, classifyVars, callVars, geoVars, sessionVars>>

\* The store rejects the statement (connection lost): the exception is
\* logged and re-raised, the statement has changed nothing.
StatementRaises ==
    /\ pc = "end"
    /\ pc' = "idle"
    /\ outcome' = "raised"
    /\ queries' = queries + 1
    /\ prev' = NoCounts
    /\ cur' = NoCounts
    /\ UNCHANGED <<graph, upstream, phase, authenticated, locals, stats,
                   fetches, started, completed>>
    /\ UNCHANGED <<ragVars, classifyVars, callVars, geoVars, sessionVars>>

ImportNext == StartImport \/ Login \/ BeginPhase \/ EndPhase \/ StatementRaises

SpecImport == ImportInit /\ [][ImportNext]_vars

ImportIdle ==
    /\ graph = EmptyGraph
    /\ upstream = Unavailable
    /\ pc = "idle"
    /\ phase = ""
    /\ authenticated = FALSE
    /\ locals = NoLocals
    /\ stats = <<>>
    /\ outcome = "none"
    /\ fetches = 0
    /\ queries = 0
    /\ started = <<>>
    /\ completed = <<>>
    /\ prev = NoCounts
    /\ cur = NoCounts

(***************************************************************************)
(* GraphRAG.answer_question as a process: any question, any time, against  *)
(* a knowledge graph the call only reads                                   *)
(***************************************************************************)
RagInit ==
    /\ ImportIdle
    /\ ClassifyIdle
    /\ CallsIdle
    /\ SessionsIdle
    /\ GeoIdle
    /\ kg \in KnowledgeGraphs
    /\ question = <<>>
    /\ result = NoResult

AnswerQuestion ==
    /\ \E q \in RagQuestions :
        /\ question' = q
        /\ result' = answer_question(kg, q)
    /\ UNCHANGED <<kg, importVars, classifyVars, callVars, geoVars, sessionVars>>

RagNext == AnswerQuestion

SpecRag == RagInit /\ [][RagNext]_vars

(***************************************************************************)
(* GraphRAG.classify_question applied to the bounded questions             *)
(***************************************************************************)
ClassifyInit ==
    /\ ImportIdle
    /\ RagIdle
    /\ CallsIdle
    /\ SessionsIdle
    /\ GeoIdle
    /\ asked \in Questions
    /\ q_type = "none"

ClassifyQuestion ==
    /\ q_type = "none"
    /\ q_type' = classify_question(asked)
    /\ UNCHANGED <<asked, importVars, ragVars, callVars, geoVars, sessionVars>>

\* The same question is classified again.
ClassifyAgain ==
    /\ q_type # "none"
    /\ q_type' = classify_question(asked)
    /\ UNCHANGED <<asked, importVars, ragVars, callVars, geoVars, sessionVars>>

ClassifyNext == ClassifyQuestion \/ ClassifyAgain

SpecClassify == ClassifyInit /\ [][ClassifyNext]_vars

(***************************************************************************)
(* Concurrent GraphRAG.answer_question calls on one GraphRAG object: each  *)
(* call runs its statements in order, a step per graph query, and the      *)
(* calls' steps interleave in any way.  Every query is a read.             *)
(***************************************************************************)
\* A knowledge graph with a node of every label the pipeline reads.
SharedKG ==
    [Feature |->
        << [name |-> CoolingGel, description |-> Some(CoolsTheBack),
            relieves |-> <<BackPain>>, products |-> <<Alpha, Beta>>,
            support |-> <<EvidenceEntry(1)>>] >>,
     PainPoint |->
        << [name |-> BackPain, description |-> Null, severity |-> Some(8),
            evidence_count |-> Some(5),
            relieved_by |-> << [name |-> CoolingGel, products |-> <<Alpha>>] >>,
            support |-> <<EvidenceEntry(1), EvidenceEntry(2)>>] >>,
     Product |->
        << [name |-> Alpha, features |-> <<CoolingGel, MemoryFoam>>],
           [name |-> Beta, features |-> <<CoolingGel>>] >>,
     Claim |-> <<ClaimNode(EvidenceShows, 8, <<EvidenceEntry(1)>>)>>]

CallGraphs == {EmptyKG, SharedKG}

CallQuestions ==
    {Q_WhatIsCoolingGel, Q_HowToSolveBackPain, Q_AlphaVsBeta, Q_WhatEvidence}

\* All calls keeping their locals in one place, as fields of the GraphRAG
\* object would be.
FrameOfObject(c) == 1

\* q_type, data and answer are local variables of answer_question: every
\* call has its own.
FrameOf(c) == c

\* The arguments of the queries a branch may issue, in order.
SeedsOf(branch, text) ==
    IF branch = "feature_info" \/ branch = "pain_point_solution"
    THEN Filter(split(text), LongerThan3)
    ELSE IF branch = "product_comparison"
    THEN Take(ProductNames(text), 2)
    ELSE LET keywords == Filter(split(text), LongerThan4)
         IN  <<IF keywords # <<>> THEN keywords[1] ELSE <<>> >>

\* The i-th argument kept for the branch's query.
Arg(keywords, i) == IF i <= Len(keywords) THEN keywords[i] ELSE <<>>

\* Call c has taken a step: the other calls in progress have been overlapped.
Overlap(c, cs) ==
    [d \in Calls |->
        IF d # c /\ cs[d].pc \notin {"idle", "done"}
        THEN [cs[d] EXCEPT !.overlapped = TRUE] ELSE cs[d]]

CallsInit ==
    /\ ImportIdle
    /\ ClassifyIdle
    /\ GeoIdle
    /\ CallsIdle
    /\ SessionsIdle
    /\ kg \in CallGraphs
    /\ question = <<>>
    /\ result = NoResult

Invoke(c) ==
    /\ calls[c].pc \in {"idle", "done"}
    /\ \E q \in CallQuestions :
        /\ calls' = Overlap(c, [calls EXCEPT ![c] =
                        [NoCall EXCEPT !.pc = "classify", !.question = q]])
        /\ frames' = [frames EXCEPT ![FrameOf(c)] = [NoFrame EXCEPT !.question = q]]
    /\ UNCHANGED <<importVars, ragVars, classifyVars, geoVars, sessionVars>>

\* Step 1, and the part of step 2 before the first query.
Classify(c) ==
    /\ calls[c].pc = "classify"
    /\ LET f == frames[FrameOf(c)]
           t == classify_question(f.question)
           branch == BranchOf(t)
           fixed == branch = "else"
                    \/ (branch = "product_comparison"
                        /\ Len(ProductNames(f.question)) < 2)
           answer == IF branch = "else"
                     THEN Answer(f.question, NotSureText, <<>>, 2, <<>>)
                     ELSE Answer(f.question, TwoProductsText, <<>>, 0, <<>>)
       IN  /\ frames' = [frames EXCEPT ![FrameOf(c)] =
                  IF fixed
                  THEN [f EXCEPT !.q_type = t, !.out = Returns(answer)]
                  ELSE [f EXCEPT !.q_type = t,
                                 !.keywords = SeedsOf(branch, f.question)]]
           /\ calls' = Overlap(c, [calls EXCEPT ![c].pc =
                           IF fixed THEN "return" ELSE "retrieve"])
    /\ UNCHANGED <<importVars, ragVars, classifyVars, geoVars, sessionVars>>

\* One query of the retrieval step.
Retrieve(c) ==
    /\ calls[c].pc = "retrieve"
    /\ LET f == frames[FrameOf(c)]
           branch == BranchOf(f.q_type)
           keyed == branch = "feature_info" \/ branch = "pain_point_solution"
           rows == IF f.keywords = <<>> THEN <<>>
                   ELSE IF branch = "feature_info"
                   THEN feature_query(kg, Head(f.keywords))
                   ELSE IF branch = "pain_point_solution"
                   THEN pain_point_query(kg, Head(f.keywords))
                   ELSE <<>>
       IN  IF keyed /\ f.keywords = <<>>
           THEN /\ frames' = frames
                /\ calls' = Overlap(c, [calls EXCEPT ![c].pc = "generate"])
           ELSE IF keyed /\ rows = <<>>
           THEN /\ frames' = [frames EXCEPT ![FrameOf(c)] =
                       [f EXCEPT !.keywords = Tail(f.keywords),
                                 !.issued = Append(f.issued, Head(f.keywords))]]
                /\ calls' = Overlap(c, calls)
           ELSE IF keyed
           THEN /\ frames' = [frames EXCEPT ![FrameOf(c)] =
                       [f EXCEPT !.data = rows[1],
                                 !.issued = Append(f.issued, Head(f.keywords))]]
                /\ calls' = Overlap(c, [calls EXCEPT ![c].pc = "generate"])
           ELSE LET got == IF branch = "product_comparison"
                           THEN retrieve_product_comparison(kg, Arg(f.keywords, 1),
                                                            Arg(f.keywords, 2))
                           ELSE retrieve_evidence_for_claim(kg, Arg(f.keywords, 1))
                IN  /\ frames' = [frames EXCEPT ![FrameOf(c)] =
                           [f EXCEPT !.data = got.data, !.issued = got.issued]]
                    /\ calls' = Overlap(c, [calls EXCEPT ![c].pc = "generate"])
    /\ UNCHANGED <<importVars, ragVars, classifyVars, geoVars, sessionVars>>

\* The generator of the branch.
Generate(c) ==
    /\ calls[c].pc = "generate"
    /\ LET f == frames[FrameOf(c)]
           branch == BranchOf(f.q_type)
           out == IF branch = "pain_point_solution"
                  THEN generate_pain_point_answer(f.data)
                  ELSE IF branch = "product_comparison"
                  THEN generate_comparison_answer(f.data)
                  ELSE generate_feature_answer(f.data)
       IN  /\ frames' = [frames EXCEPT ![FrameOf(c)] = [f EXCEPT !.out = out]]
           /\ calls' = Overlap(c, [calls EXCEPT ![c].pc = "return"])
    /\ UNCHANGED <<importVars, ragVars, classifyVars, geoVars, sessionVars>>

\* Step 3 and the return (or the exception reaching the caller).
Return(c) ==
    /\ calls[c].pc = "return"
    /\ LET f == frames[FrameOf(c)]
           out == IF f.out.raised THEN f.out
                  ELSE [f.out EXCEPT !.answer.question = f.question]
       IN  calls' = Overlap(c, [calls EXCEPT ![c].pc = "done", ![c].out = out])
    /\ UNCHANGED <<frames, importVars, ragVars, classifyVars, geoVars, sessionVars>>

CallsNext ==
    \E c \in Calls :
        Invoke(c) \/ Classify(c) \/ Retrieve(c) \/ Generate(c) \/ Return(c)

SpecCalls == CallsInit /\ [][CallsNext]_vars

(***************************************************************************)
(* GEOQueries: the analytical queries.  A float the queries compute is a   *)
(* fraction <<numerator, denominator>> with a positive denominator; a      *)
(* stored modularity or score is in hundredths, a credibility in tenths.   *)
(* ORDER BY leaves the order of rows with equal keys open: a sort yields   *)
(* the set of the orders it may produce.                                   *)
(***************************************************************************)
FracLeq(a, b) == a[1] * b[2] <= b[1] * a[2]
FracLess(a, b) == a[1] * b[2] < b[1] * a[2]
FracEq(a, b) == a[1] * b[2] = b[1] * a[2]

Abs(x) == IF x < 0 THEN -x ELSE x

\* ORDER BY key DESC over rows with a nullable fraction `key`: null sorts
\* first in descending order.
KeyHigher(a, b) ==
    IF IsNull(a.key) THEN ~IsNull(b.key)
    ELSE ~IsNull(b.key) /\ FracLess(Value(b.key), Value(a.key))

\* ORDER BY key DESC LIMIT n: the lists of the first n rows that an order
\* by descending key may give, tied rows in any order.
TopByDesc(rows, n) ==
    LET RECURSIVE Orders(_, _)
        Orders(S, left) ==
            IF S = {} \/ left = 0 THEN {<<>>}
            ELSE UNION { {<<rows[i]>> \o t : t \in Orders(S \ {i}, left - 1)} :
                           i \in {i \in S : \A j \in S : ~KeyHigher(rows[j], rows[i])} }
    IN  Orders(1..Len(rows), n)

\* The orders ORDER BY key DESC may give the rows.
OrderByDesc(rows) == TopByDesc(rows, Len(rows))

\* The rows of `groups` (a list without repetition) in the order in which
\* their group first occurs.
RECURSIVE FirstOccurrences(_, _)
FirstOccurrences(items, seen) ==
    IF items = <<>> THEN seen
    ELSE FirstOccurrences(Tail(items),
            IF \E i \in 1..Len(seen) : seen[i] = Head(items)
            THEN seen ELSE Append(seen, Head(items)))

\* ORDER BY k.betweenness DESC LIMIT 5 of the two keyword steps.
RepresentativeLimit == 5

\* keywords_a and keywords_b carry the first 3 names.
RepresentativeCount == 3

\* OPTIONAL MATCH (k:Keyword)-[:BELONGS_TO]->(tc): a row per keyword of the
\* cluster, one row with a null keyword for a cluster without keywords.
KeywordRows(g, pair, cluster) ==
    LET ks == g.TopicCluster[cluster].keywords
    IN  IF ks = <<>> THEN << [pair |-> pair, k |-> Null, key |-> Null] >>
        ELSE [i \in 1..Len(ks) |->
                [pair |-> pair, k |-> Some(ks[i].name),
                 key |-> Some(<<ks[i].betweenness, 1>>)]]

RECURSIVE Flatten(_)
Flatten(lists) == IF lists = <<>> THEN <<>> ELSE Head(lists) \o Flatten(Tail(lists))

\* WITH ..., collect(k): the pairs left in `rows`, each with the non-null
\* keywords of its rows in the order of the rows.  The groups themselves
\* come in no order that matters before the final ORDER BY; they are listed
\* by pair.
CollectKeywords(rows) ==
    LET pairs == SetToSeq({rows[i].pair : i \in 1..Len(rows)})
        Of(pair) == SelectIdx(rows, {i \in 1..Len(rows) :
                                rows[i].pair = pair /\ ~IsNull(rows[i].k)}, 1)
    IN  [n \in 1..Len(pairs) |->
            [pair |-> pairs[n],
             keywords |-> [i \in 1..Len(Of(pairs[n])) |-> Value(Of(pairs[n])[i].k)]]]

\* MATCH (tc1:TopicCluster), (tc2:TopicCluster) WHERE id(tc1) < id(tc2)
ClusterPairs(g) ==
    SetToSeq({<<i, j>> \in (1..Len(g.TopicCluster)) \X (1..Len(g.TopicCluster)) : i < j})

\* OPTIONAL MATCH bridge = (tc1)-[:BRIDGES]-(tc2): a row per BRIDGES
\* relationship between the two clusters, in either direction.
Bridges(g, pair) ==
    SelectIdx(g.BRIDGES, {i \in 1..Len(g.BRIDGES) :
        g.BRIDGES[i] = pair \/ g.BRIDGES[i] = <<pair[2], pair[1]>>}, 1)

\* CASE WHEN bridge IS NULL THEN 1.0 ELSE 0.3 END, with no case for a bridge.
BridgePenaltyIgnored(bridged) == 10

\* CASE WHEN bridge IS NULL THEN 1.0 ELSE 0.3 END, in tenths.
BridgePenalty(bridged) == IF bridged THEN 3 ELSE 10

\* bridge_penalty * ((mod1 + mod2) / 2.0) *
\* (1.0 - abs(size1 - size2) / (size1 + size2 + 1.0)); null when a
\* modularity or size is.
OpportunityScore(tc1, tc2, bridged) ==
    IF IsNull(tc1.modularity) \/ IsNull(tc2.modularity)
       \/ IsNull(tc1.size) \/ IsNull(tc2.size)
    THEN Null
    ELSE LET total == Value(tc1.size) + Value(tc2.size) + 1
             diff == Abs(Value(tc1.size) - Value(tc2.size))
         IN  Some(<<BridgePenalty(bridged)
                      * (Value(tc1.modularity) + Value(tc2.modularity))
                      * (total - diff),
                    2000 * total>>)

\* The rows after the bridge step, scored, filtered and projected.
HoleRows(g, groups1, groups2, min_score) ==
    LET Keywords1(pair) ==
            Flatten([i \in 1..Len(groups1) |->
                IF groups1[i].pair = pair THEN <<groups1[i].keywords>> ELSE <<>>])[1]
        RowsOf(n) ==
            LET pair == groups2[n].pair
                tc1 == g.TopicCluster[pair[1]]
                tc2 == g.TopicCluster[pair[2]]
                bridges == Bridges(g, pair)
                Row(bridged) ==
                    [cluster_a |-> tc1.name, cluster_b |-> tc2.name,
                     keywords_a |-> Take(Keywords1(pair), RepresentativeCount),
                     keywords_b |-> Take(groups2[n].keywords, RepresentativeCount),
                     key |-> OpportunityScore(tc1, tc2, bridged)]
            IN  IF bridges = <<>> THEN <<Row(FALSE)>>
                ELSE [i \in 1..Len(bridges) |-> Row(TRUE)]
        all == Flatten([n \in 1..Len(groups2) |-> RowsOf(n)])
    IN  SelectIdx(all, {i \in 1..Len(all) :
            /\ ~IsNull(all[i].key)
            /\ FracLeq(<<min_score, 100>>, Value(all[i].key))}, 1)

\* GEOQueries.find_structure_holes: the results the query may return
\* (min_opportunity_score in hundredths).
find_structure_holes(g, min_opportunity_score, limit) ==
    LET pairs == ClusterPairs(g)
        rows1 == Flatten([n \in 1..Len(pairs) |-> KeywordRows(g, pairs[n], pairs[n][1])])
        Step2(groups1) ==
            LET rows2 == Flatten([n \in 1..Len(groups1) |->
                            KeywordRows(g, groups1[n].pair, groups1[n].pair[2])])
            IN  UNION { TopByDesc(HoleRows(g, groups1, groups2, min_opportunity_score),
                                  limit) :
                        groups2 \in { CollectKeywords(top2) :
                                        top2 \in TopByDesc(rows2, RepresentativeLimit) } }
    IN  UNION { Step2(groups1) :
                  groups1 \in { CollectKeywords(top1) :
                                  top1 \in TopByDesc(rows1, RepresentativeLimit) } }

\* MATCH (asset:Asset) WHERE $asset_id IS NULL OR asset.id = $asset_id
MatchedAssets(g, asset_id) ==
    {i \in 1..Len(g.Asset) : IsNull(asset_id) \/ g.Asset[i].id = Value(asset_id)}

\* A SET that reaches every asset, matched or not.
WrittenAssetsAll(g, asset_id) == 1..Len(g.Asset)

\* SET asset.citation_ready_score: the assets of the rows that reach it.
WrittenAssets(g, asset_id) == MatchedAssets(g, asset_id)

\* count(DISTINCT x) over the values of a list.
CountDistinct(xs) == Cardinality({xs[i] : i \in 1..Len(xs)})

RECURSIVE SumOf(_)
SumOf(xs) == IF xs = <<>> THEN 0 ELSE Head(xs) + SumOf(Tail(xs))

\* avg(evidence.credibility_score) over the rows of the trace-back match:
\* the mean of the non-null values as <<sum, 10 * count>>, null without any.
AvgCredibility(paths) ==
    LET given == SelectIdx(paths, {i \in 1..Len(paths) :
                              ~IsNull(paths[i].credibility)}, 1)
    IN  IF given = <<>> THEN Null
        ELSE Some(<<SumOf([i \in 1..Len(given) |-> Value(given[i].credibility)]),
                    10 * Len(given)>>)

\* COALESCE(avg_evidence_credibility, 0.5)
Coalesce(value, default) == IF IsNull(value) THEN default ELSE Value(value)

\* The bands of the CASE with exclusive lower bounds.
QualityRatingExclusive(score) ==
    IF FracLess(<<8, 10>>, score) THEN "Excellent"
    ELSE IF FracLess(<<6, 10>>, score) THEN "Good"
    ELSE IF FracLess(<<4, 10>>, score) THEN "Fair"
    ELSE "Needs Improvement"

\* CASE WHEN citation_ready_score >= 0.8 THEN 'Excellent' ... END
QualityRating(score) ==
    IF FracLeq(<<8, 10>>, score) THEN "Excellent"
    ELSE IF FracLeq(<<6, 10>>, score) THEN "Good"
    ELSE IF FracLeq(<<4, 10>>, score) THEN "Fair"
    ELSE "Needs Improvement"

\* The row of an asset: 0.6 * (mention_count / 10.0) +
\* 0.4 * ((evidence_count / 5.0) * COALESCE(avg, 0.5)).
CitationRow(asset) ==
    LET mention_count == CountDistinct(asset.mentions)
        claim_count == CountDistinct([i \in 1..Len(asset.paths) |-> asset.paths[i].claim])
        evidence_count ==
            CountDistinct([i \in 1..Len(asset.paths) |-> asset.paths[i].evidence])
        avg == Coalesce(AvgCredibility(asset.paths), <<5, 10>>)
        connectivity_score == <<mention_count, 10>>
        evidence_score == <<evidence_count * avg[1], 5 * avg[2]>>
        citation_ready_score ==
            <<6 * connectivity_score[1] * evidence_score[2]
                + 4 * evidence_score[1] * connectivity_score[2],
              10 * connectivity_score[2] * evidence_score[2]>>
    IN  [asset_id |-> asset.id, type |-> asset.type,
         citation_ready_score |-> citation_ready_score,
         connectivity_score |-> connectivity_score,
         evidence_score |-> evidence_score,
         mention_count |-> mention_count, claim_count |-> claim_count,
         evidence_count |-> evidence_count,
         quality_rating |-> QualityRating(citation_ready_score),
         key |-> Some(citation_ready_score)]

\* GEOQueries.calculate_citation_ready_score: the graph after the SET and
\* the results the query may return.
calculate_citation_ready_score(g, asset_id) ==
    LET matched == SortedInts(MatchedAssets(g, asset_id))
        rows == [n \in 1..Len(matched) |-> CitationRow(g.Asset[matched[n]])]
        after == [g EXCEPT !.Asset =
                    [i \in 1..Len(g.Asset) |->
                        IF i \in WrittenAssets(g, asset_id)
                        THEN [g.Asset[i] EXCEPT !.citation_ready_score =
                                Some(CitationRow(g.Asset[i]).citation_ready_score)]
                        ELSE g.Asset[i]]]
    IN  {[graph |-> after, rows |-> order] : order \in OrderByDesc(rows)}

\* The rows of a prompt before the aggregation: a value per match of an
\* OPTIONAL MATCH, one null without a match.
OrNull(values) == IF values = <<>> THEN <<Null>> ELSE values

\* WITH prompt, gap_score, pain_severity, count(DISTINCT asset): a row per
\* distinct (gap_score, pain_severity) of the prompt.
PromptGroups(prompt) ==
    LET gap_scores == OrNull(prompt.gaps)
        severities == OrNull(prompt.pains)
    IN  FirstOccurrences(
            Flatten([i \in 1..Len(gap_scores) |->
                [j \in 1..Len(severities) |->
                    [gap_score |-> gap_scores[i], pain_severity |-> severities[j]]]]),
            <<>>)

\* gap_component * 0.4 + pain_component * 0.3 + novelty_component * 0.2 +
\* (base_priority / 10.0) * 0.1; null when the prompt has no priority.
FinalScore(gap_score, pain_severity, existing_assets, base_priority) ==
    IF IsNull(base_priority) THEN Null
    ELSE LET gap_component == Coalesce(gap_score, 50)
             pain == Coalesce(pain_severity, 5)
         IN  Some(<<(4 * gap_component + 30 * pain + 10 * Value(base_priority))
                        * (existing_assets + 1) + 200,
                    1000 * (existing_assets + 1)>>)

\* GEOQueries.rank_prompts_by_priority: the results the query may return.
rank_prompts_by_priority(g, limit) ==
    LET RowsOf(prompt) ==
            [n \in 1..Len(PromptGroups(prompt)) |->
                [prompt_text |-> prompt.text, prompt_type |-> prompt.type,
                 key |-> FinalScore(PromptGroups(prompt)[n].gap_score,
                                    PromptGroups(prompt)[n].pain_severity,
                                    CountDistinct(prompt.assets), prompt.priority)]]
        rows == Flatten([i \in 1..Len(g.Prompt) |-> RowsOf(g.Prompt[i])])
    IN  TopByDesc(rows, limit)

(***************************************************************************)
(* The analytical queries as a process: any query, any time, on a graph    *)
(* that only calculate_citation_ready_score writes                         *)
(***************************************************************************)
Kw(name, betweenness) == [name |-> name, betweenness |-> betweenness]

Cluster(name, modularity, size, keywords) ==
    [name |-> name, modularity |-> modularity, size |-> size, keywords |-> keywords]

\* Topic clusters: with and without keywords, as imported (modularity 0.0)
\* and with a modularity computed later or missing.
ClusterPool ==
    << Cluster("A", Some(80), Some(5), <<Kw("a1", 90), Kw("a2", 40)>>),
       Cluster("B", Some(60), Some(5), <<Kw("b1", 70), Kw("b2", 30)>>),
       Cluster("C", Some(90), Some(2), <<>>),
       Cluster("D", Some(0), Some(1), <<Kw("d1", 50)>>),
       Cluster("E", Null, Some(3), <<Kw("e1", 50)>>) >>

\* Most topic clusters in the graph.
MaxClusters == 3

\* The lists of up to n different nodes of a pool, in the order of the pool
\* (the order in which the nodes were created).
NodeLists(pool, n) ==
    {SelectIdx(pool, S, 1) : S \in {T \in SUBSET (1..Len(pool)) : Cardinality(T) <= n}}

\* The BRIDGES relationships: none, one in either direction, or one in each
\* direction between the same two clusters.
BridgeOptions ==
    { <<>>, << <<1, 2>> >>, << <<2, 1>> >>, << <<1, 2>>, <<2, 1>> >>, << <<2, 3>> >> }

\* A graph whose BRIDGES relationships join clusters it holds.
WellFormed(g) ==
    \A i \in 1..Len(g.BRIDGES) :
        g.BRIDGES[i][1] <= Len(g.TopicCluster) /\ g.BRIDGES[i][2] <= Len(g.TopicCluster)

ClusterGraphs ==
    { g \in { [EmptyGeo EXCEPT !.TopicCluster = cs, !.BRIDGES = b] :
                cs \in NodeLists(ClusterPool, MaxClusters), b \in BridgeOptions } :
        WellFormed(g) }

Path(claim, evidence, credibility) ==
    [claim |-> claim, evidence |-> evidence, credibility |-> credibility]

Asset(id, mentions, paths) ==
    [id |-> id, type |-> "article", mentions |-> mentions, paths |-> paths,
     citation_ready_score |-> Null]

\* Assets: 5 mentions and 3 evidence of credibility 0.8; on the boundaries
\* 0.4, 0.6 and 0.8; above 1; without mentions; with evidence reached twice
\* and evidence without a credibility.
AssetPool ==
    << Asset("a1", <<1, 2, 3, 4, 5>>,
            <<Path(1, 1, Some(8)), Path(1, 2, Some(8)), Path(2, 3, Some(8))>>),
      Asset("a2", [i \in 1..10 |-> i], <<>>),
      Asset("a3", [i \in 1..12 |-> i], <<Path(1, 1, Some(10))>>),
      Asset("a4", <<1, 2, 3, 4>>, <<Path(1, 1, Some(10)), Path(1, 2, Some(10))>>),
      Asset("a5", [i \in 1..20 |-> i], <<Path(1, 1, Some(5))>>),
      Asset("a6", <<1, 1, 2>>,
            <<Path(1, 1, Some(9)), Path(2, 1, Some(9)), Path(2, 2, Null)>>),
      Asset("a7", <<>>, <<Path(1, 1, Null)>>) >>

\* Most assets in the graph.
MaxAssets == 2

AssetGraphs ==
    { [EmptyGeo EXCEPT !.Asset = as] : as \in NodeLists(AssetPool, MaxAssets) }

AssetIds == {Null, Some("a1"), Some("a2"), Some("a6"), Some("a9")}

PromptOf(text, priority, gaps, pains, assets) ==
    [text |-> text, type |-> "exploratory", priority |-> priority,
     gaps |-> gaps, pains |-> pains, assets |-> assets]

\* Prompts: gap 0.9, severity 8, no asset, priority 5; without gap and pain
\* point; with assets; addressing two pain points of different and of equal
\* severity; suggested by two gaps of equal score.
PromptPool ==
    << PromptOf("p1", Some(5), <<Some(90)>>, <<Some(8)>>, <<>>),
      PromptOf("p2", Some(1), <<>>, <<>>, <<>>),
      PromptOf("p3", Some(10), <<Some(75)>>, <<>>, <<"a1", "a1", "a2">>),
      PromptOf("p4", Some(3), <<Some(75)>>, <<Some(8), Some(4)>>, <<"a1">>),
      PromptOf("p5", Some(2), <<Null>>, <<Some(6), Some(6)>>, <<>>),
      PromptOf("p6", Some(7), <<Some(90), Some(90)>>, <<>>, <<>>) >>

\* Most prompts in the graph.
MaxPrompts == 2

PromptGraphs ==
    { [EmptyGeo EXCEPT !.Prompt = ps] : ps \in NodeLists(PromptPool, MaxPrompts) }

GeoGraphs == ClusterGraphs \cup AssetGraphs \cup PromptGraphs

\* min_opportunity_score, in hundredths (0.7 is the default), and limit.
MinScores == {0, 21, 22, 70}
Limits == {1, 2, 10}

GeoInit ==
    /\ ImportIdle
    /\ RagIdle
    /\ ClassifyIdle
    /\ CallsIdle
    /\ SessionsIdle
    /\ geo \in GeoGraphs
    /\ last = NoQuery

FindStructureHoles ==
    /\ \E min_score \in MinScores, limit \in Limits :
        \E rows \in find_structure_holes(geo, min_score, limit) :
            last' = [op |-> "find_structure_holes", min_score |-> min_score,
                     limit |-> limit, rows |-> rows]
    /\ UNCHANGED <<geo, importVars, ragVars, classifyVars, callVars, sessionVars>>

\* The call follows a call with the same argument, with no query between.
Repeats(previous, asset_id) ==
    /\ previous.op = "calculate_citation_ready_score"
    /\ previous.asset_id = asset_id

CalculateCitationReadyScore ==
    /\ \E asset_id \in AssetIds :
        \E out \in calculate_citation_ready_score(geo, asset_id) :
            /\ geo' = out.graph
            /\ last' = [op |-> "calculate_citation_ready_score",
                        asset_id |-> asset_id, rows |-> out.rows,
                        again |-> Repeats(last, asset_id)]
    /\ UNCHANGED <<importVars, ragVars, classifyVars, callVars, sessionVars>>

RankPromptsByPriority ==
    /\ \E limit \in Limits :
        \E rows \in rank_prompts_by_priority(geo, limit) :
            last' = [op |-> "rank_prompts_by_priority", limit |-> limit,
                     rows |-> rows]
    /\ UNCHANGED <<geo, importVars, ragVars, classifyVars, callVars, sessionVars>>

RECURSIVE Gcd(_, _)
Gcd(a, b) == IF b = 0 THEN a ELSE Gcd(b, a % b)

\* A fraction in lowest terms, and the sum of two.
Reduce(f) == <<f[1] \div Gcd(f[1], f[2]), f[2] \div Gcd(f[1], f[2])>>

FracAdd(a, b) == Reduce(<<a[1] * b[2] + b[1] * a[2], a[2] * b[2]>>)

RECURSIVE FracSum(_)
FracSum(fs) == IF fs = <<>> THEN <<0, 1>> ELSE FracAdd(Head(fs), FracSum(Tail(fs)))

\* MATCH (a:Asset) WHERE a.citation_ready_score IS NOT NULL
\* RETURN avg(a.citation_ready_score): one row, null without such an asset.
AvgCitationScore(g) ==
    LET scored == SelectIdx(g.Asset, {i \in 1..Len(g.Asset) :
                              ~IsNull(g.Asset[i].citation_ready_score)}, 1)
        sum == FracSum([i \in 1..Len(scored) |-> Value(scored[i].citation_ready_score)])
    IN  IF scored = <<>> THEN Null
        ELSE Some(Reduce(<<sum[1], sum[2] * Len(scored)>>))

\* find_structure_holes(min_opportunity_score=0.7, limit=5) and top_gaps[:5]
TopGapsMinScore == 70
TopGapsLimit == 5

\* MonitoringDashboard.get_pipeline_metrics: the metrics it may return
\* (float(avg) if avg else 0.0 turns null and 0.0 into 0.0).
get_pipeline_metrics(g) ==
    LET avg == AvgCitationScore(g)
    IN  { [total_prompts |-> Len(g.Prompt),
           avg_citation_score |->
               IF IsNull(avg) \/ Value(avg)[1] = 0 THEN <<0, 1>> ELSE Value(avg),
           top_opportunity_gaps |-> Take(top_gaps, TopGapsLimit)] :
          top_gaps \in find_structure_holes(g, TopGapsMinScore, TopGapsLimit) }

GetPipelineMetrics ==
    /\ \E metrics \in get_pipeline_metrics(geo) :
        last' = [op |-> "get_pipeline_metrics", metrics |-> metrics]
    /\ UNCHANGED <<geo, importVars, ragVars, classifyVars, callVars, sessionVars>>

GeoNext ==
    \/ FindStructureHoles
    \/ CalculateCitationReadyScore
    \/ RankPromptsByPriority
    \/ GetPipelineMetrics

SpecGeo == GeoInit /\ [][GeoNext]_vars

(***************************************************************************)
(* import_gaps and generate_prompts_from_gaps called with lists of gaps    *)
(***************************************************************************)
\* Longest list of gaps handed to the importer.
MaxGaps == 11

\* The i-th gap of the long list; scores (in hundredths) neither ascend nor
\* descend with the position.
GapAt(i) == UpGap("t" \o ToString(i), "u" \o ToString(i), (37 * i) % 100)

LongGaps(n) == [i \in 1..n |-> GapAt(i)]

\* Lists of gaps: of different pairs, up to more than 10 long; with a pair
\* twice; with a pair in both orders; with two pairs that give one text.
PromptGapLists ==
    {LongGaps(n) : n \in {0, 1, 2, MaxGaps}}
    \cup { <<GapAt(2), GapAt(1)>>,
           <<UpGap("tA", "tB", 50), GapAt(1), UpGap("tA", "tB", 70)>>,
           <<UpGap("tA", "tB", 90), UpGap("tB", "tA", 80)>>,
           <<UpGap("x", "y and z", 60), UpGap("x and y", "z", 40)>> }

\* Most calls of the two methods in a behaviour.
MaxImporterCalls == 3

\* The calls made so far.
CallsSoFar(l) == IF l.op = "none" THEN 0 ELSE l.calls

PromptsInit ==
    /\ ImportIdle
    /\ RagIdle
    /\ ClassifyIdle
    /\ CallsIdle
    /\ SessionsIdle
    /\ GeoIdle

ImportGaps ==
    /\ CallsSoFar(last) < MaxImporterCalls
    /\ \E gaps \in PromptGapLists :
        LET out == import_gaps(graph, gaps)
        IN  /\ graph' = out.graph
            /\ last' = [op |-> "import_gaps", gaps |-> gaps, count |-> out.count,
                        calls |-> CallsSoFar(last) + 1]
    /\ UNCHANGED <<upstream, pc, phase, authenticated, locals, stats, outcome,
                   fetches, queries, started, completed, prev, cur>>
    /\ UNCHANGED <<geo, ragVars, classifyVars, callVars, sessionVars>>

GeneratePromptsFromGaps ==
    /\ CallsSoFar(last) < MaxImporterCalls
    /\ \E gaps \in PromptGapLists :
        LET out == generate_prompts_from_gaps(graph, gaps)
        IN  /\ graph' = out.graph
            /\ last' = [op |-> "generate_prompts_from_gaps", gaps |-> gaps,
                        count |-> out.count, calls |-> CallsSoFar(last) + 1]
    /\ UNCHANGED <<upstream, pc, phase, authenticated, locals, stats, outcome,
                   fetches, queries, started, completed, prev, cur>>
    /\ UNCHANGED <<geo, ragVars, classifyVars, callVars, sessionVars>>

PromptsNext == ImportGaps \/ GeneratePromptsFromGaps

SpecPrompts == PromptsInit /\ [][PromptsNext]_vars

(***************************************************************************)
(* InfraNodusClient as a process: any fetch, any time, against a service   *)
(* whose login and GET requests may fail                                   *)
(***************************************************************************)
ClientNode(name, community) ==
    [name |-> name, betweenness_centrality |-> 1, degree |-> 1, community |-> community]

\* Nodes of three communities and one without a community.
ClientNodePool ==
    << ClientNode("k1", "cA"), ClientNode("k2", "cB"), ClientNode("k3", "cA"),
       ClientNode("k4", "cC"), ClientNode("k5", None) >>

\* Longest node list of the service.
MaxClientNodes == 4

\* The lists of up to n different elements of a pool, in any order.
Arrangements(pool, n) ==
    {q \in SeqsUpTo(1..Len(pool), n) : \A i, j \in 1..Len(q) : q[i] = q[j] => i = j}

ClientNodeLists ==
    { [i \in 1..Len(q) |-> ClientNodePool[q[i]]] :
        q \in Arrangements(ClientNodePool, MaxClientNodes) }

\* The body of GET /api/user/statements/{context}.
StatementItems == << [text |-> "s1", id |-> "1"], [text |-> "s2", id |-> "2"] >>

ClientGapLists ==
    { [has_gaps |-> FALSE, gaps |-> <<>>],
      [has_gaps |-> TRUE, gaps |-> <<>>],
      [has_gaps |-> TRUE, gaps |-> <<UpGap("tA", "tB", 90), UpGap("tB", "tA", 80)>>] }

ClientDatasets ==
    { [status |-> 200, nodes |-> n, edges |-> <<>>, has_gaps |-> g.has_gaps,
       gaps |-> g.gaps, statements |-> StatementItems] :
        n \in ClientNodeLists, g \in ClientGapLists }

\* A request that raises (connection refused, timeout): there is no response.
Unreachable == [status |-> 0]

\* What a GET may meet: the dataset, a non-200 status, or an exception.
Responses(up) == {up, Unavailable, Unreachable}

\* Statement.from_api_response
StatementOf(item) == [text |-> item.text, id |-> item.id]

\* get_statements after _ensure_authenticated: the items on status 200,
\* else the empty list.
get_statements(up) ==
    IF up.status = 200
    THEN [i \in 1..Len(up.statements) |-> StatementOf(up.statements[i])]
    ELSE <<>>

\* _ensure_authenticated: an authenticated client does not log in; another
\* one logs in once, and login() may return False.
LoginOutcomes(is_authenticated) == IF is_authenticated THEN {TRUE} ELSE BOOLEAN

\* A fetch whose _ensure_authenticated raised: no GET was sent.  `gets`
\* and `logins` count the requests of the call.
AuthRaised(op) ==
    [op |-> op, raised |-> TRUE, error |-> "Authentication required but failed",
     status |-> 0, gets |-> 0, logins |-> 1]

\* A fetch that returned `out` after one GET that met `resp`.
Fetched(op, out, resp, was_authenticated) ==
    [op |-> op, raised |-> FALSE, out |-> out, status |-> resp.status, gets |-> 1,
     logins |-> IF was_authenticated THEN 0 ELSE 1]

\* The value a fetch returns when its GET meets `resp`.
FetchValue(op, resp) ==
    CASE op = "get_graph" -> get_graph(resp)
      [] op = "get_concepts" -> get_concepts(resp, ConceptLimit)
      [] op = "get_gaps" -> get_gaps(resp)
      [] op = "get_statements" -> get_statements(resp)
      [] op = "get_communities" -> get_communities(resp)

\* A fetch method: self._ensure_authenticated() before the try block, then
\* one GET inside it.
Fetch(op) ==
    /\ \E ok \in LoginOutcomes(authenticated), resp \in Responses(upstream) :
        /\ authenticated' = ok
        /\ last' = IF ok THEN Fetched(op, FetchValue(op, resp), resp, authenticated)
                   ELSE AuthRaised(op)
    /\ UNCHANGED <<graph, upstream, pc, phase, locals, stats, outcome, fetches,
                   queries, started, completed, prev, cur>>
    /\ UNCHANGED <<geo, ragVars, classifyVars, callVars, sessionVars>>

GetGraph == Fetch("get_graph")

GetConcepts == Fetch("get_concepts")

GetGaps == Fetch("get_gaps")

GetStatements == Fetch("get_statements")

GetCommunities == Fetch("get_communities")

ClientInit ==
    /\ RagIdle
    /\ ClassifyIdle
    /\ CallsIdle
    /\ SessionsIdle
    /\ GeoIdle
    /\ graph = EmptyGraph
    /\ upstream \in ClientDatasets
    /\ pc = "idle"
    /\ phase = ""
    /\ authenticated \in BOOLEAN
    /\ locals = NoLocals
    /\ stats = <<>>
    /\ outcome = "none"
    /\ fetches = 0
    /\ queries = 0
    /\ started = <<>>
    /\ completed = <<>>
    /\ prev = NoCounts
    /\ cur = NoCounts

ClientNext == GetGraph \/ GetConcepts \/ GetGaps \/ GetStatements \/ GetCommunities

SpecClient == ClientInit /\ [][ClientNext]_vars

(***************************************************************************)
(* MonitoringDashboard.check_system_health against a store whose queries   *)
(* may fail                                                                *)
(***************************************************************************)
\* if total_nodes < 10: health_score -= 30
NodeFloor == 10

StampedKeyword(i) ==
    [name |-> "k" \o ToString(i), betweenness |-> 0, degree |-> 0,
     community |-> "uncategorized"]

PlainPrompt(i) ==
    [text |-> "p" \o ToString(i), type |-> "exploratory", priority |-> 1,
     gap_score |-> 50]

\* Graphs around the node floor: Keyword nodes (which the importer stamps
\* with last_updated), Prompt nodes (which carry no last_updated) and
\* CO_OCCURS_WITH relationships.
HealthGraphs ==
    { g \in { [EmptyGraph EXCEPT
                !.Keyword = [i \in 1..k |-> StampedKeyword(i)],
                !.Prompt = [i \in 1..p |-> PlainPrompt(i)],
                !.CO_OCCURS_WITH =
                    [i \in 1..r |-> [from |-> 1, to |-> i + 1, props |-> <<1>>]]] :
                k \in {0, 1, 2, NodeFloor - 1, NodeFloor},
                p \in {0, 1, NodeFloor - 1, NodeFloor},
                r \in {0, 1} } :
        Len(g.CO_OCCURS_WITH) < Len(g.Keyword) }

\* The nodes and relationships the store holds.
TotalNodes(g) == Len(g.Keyword) + Len(g.TopicCluster) + Len(g.Gap) + Len(g.Prompt)

TotalRelationships(g) == Len(g.BELONGS_TO) + Len(g.CO_OCCURS_WITH) + Len(g.SUGGESTS)

\* MATCH (n) WITH count(n) AS total_nodes MATCH ()-[r]->()
\* RETURN total_nodes, count(r): count(r) is grouped by total_nodes, so a
\* store without relationships gives no row.
StatsRows(g) ==
    IF TotalRelationships(g) = 0 THEN <<>>
    ELSE << [total_nodes |-> TotalNodes(g),
             total_relationships |-> TotalRelationships(g)] >>

\* MATCH (k:Keyword) WHERE k.last_updated IS NOT NULL ... LIMIT 1: every
\* Keyword of the graph was written by import_keywords, which stamps it.
LastImportRows(g) == IF g.Keyword = <<>> THEN <<>> ELSE << "timestamp" >>

\* health_score = 100.0 minus the penalties, then max(0, health_score).
HealthScore(neo4j_status, total_nodes, last_import) ==
    LET offline == IF neo4j_status = "offline" THEN 50 ELSE 0
        few == IF total_nodes < NodeFloor THEN 30 ELSE 0
        stale == IF last_import = None THEN 20 ELSE 0
        score == 100 - offline - few - stale
    IN  IF score < 0 THEN 0 ELSE score

\* check_system_health with the store answering (TRUE) or failing (FALSE)
\* each of its three queries: only the first one, "RETURN 1", runs inside a
\* try block.
check_system_health(g, answers) ==
    LET neo4j_status == IF answers[1] THEN "online" ELSE "offline"
        rows == StatsRows(g)
        total_nodes == IF rows # <<>> THEN rows[1].total_nodes ELSE 0
        total_relationships == IF rows # <<>> THEN rows[1].total_relationships ELSE 0
        import_data == LastImportRows(g)
        last_import == IF import_data # <<>> THEN import_data[1] ELSE None
    IN  IF ~answers[2] \/ ~answers[3]
        THEN [raised |-> TRUE, error |-> "ServiceUnavailable"]
        ELSE [raised |-> FALSE,
              health |-> [neo4j_status |-> neo4j_status,
                          infranodus_status |-> "online",
                          total_nodes |-> total_nodes,
                          total_relationships |-> total_relationships,
                          last_import |-> last_import,
                          health_score |-> HealthScore(neo4j_status, total_nodes,
                                                       last_import)]]

HealthInit ==
    /\ RagIdle
    /\ ClassifyIdle
    /\ CallsIdle
    /\ SessionsIdle
    /\ GeoIdle
    /\ graph \in HealthGraphs
    /\ upstream = Unavailable
    /\ pc = "idle"
    /\ phase = ""
    /\ authenticated = FALSE
    /\ locals = NoLocals
    /\ stats = <<>>
    /\ outcome = "none"
    /\ fetches = 0
    /\ queries = 0
    /\ started = <<>>
    /\ completed = <<>>
    /\ prev = NoCounts
    /\ cur = NoCounts

CheckSystemHealth ==
    /\ \E answers \in [1..3 -> BOOLEAN] :
        last' = [op |-> "check_system_health", answers |-> answers,
                 result |-> check_system_health(graph, answers)]
    /\ UNCHANGED <<importVars, geo, ragVars, classifyVars, callVars, sessionVars>>

HealthNext == CheckSystemHealth

SpecHealth == HealthInit /\ [][HealthNext]_vars

(***************************************************************************)
(* Properties of the importer (SpecImport)                                 *)
(***************************************************************************)
Unique(nodes, Key(_)) ==
    \A i, j \in 1..Len(nodes) : Key(nodes[i]) = Key(nodes[j]) => i = j

NameOf(n) == n.name
TopicsOf(n) == <<n.topic_a, n.topic_b>>
TextOf(n) == n.text
EndsOf(r) == <<r.from, r.to>>

NoDuplicates(g) ==
    /\ Unique(g.Keyword, NameOf)
    /\ Unique(g.TopicCluster, NameOf)
    /\ Unique(g.Gap, TopicsOf)
    /\ Unique(g.Prompt, TextOf)
    /\ Unique(g.BELONGS_TO, EndsOf)
    /\ Unique(g.CO_OCCURS_WITH, EndsOf)
    /\ Unique(g.SUGGESTS, EndsOf)

\* C1: when import_full_dataset has returned twice in a row (the upstream
\* dataset is the same throughout), the number of nodes of each label and of
\* relationships of each type after the second run equals that after the
\* first, and no node key or relationship occurs twice.
C1_IdempotentImport ==
    /\ prev # NoCounts => cur = prev
    /\ outcome = "returned" => cur = Counts(graph) /\ NoDuplicates(graph)

\* Two runs in a row over a dataset with nodes, edges and gaps, with every
\* label and relationship type present.
C1_Witness ==
    /\ prev # NoCounts
    /\ outcome = "returned"
    /\ upstream.status = 200
    /\ Len(upstream.nodes) >= 2
    /\ upstream.edges # <<>>
    /\ \A l \in DOMAIN cur : cur[l] > 0

IsPrefix(s, t) == Len(s) <= Len(t) /\ \A i \in 1..Len(s) : s[i] = t[i]

\* C2: the phases a run has started are, in order, an initial part of
\* keywords, clusters, cluster_links, cooccurrences, gaps, prompts; a phase
\* starts only when every phase before it has completed, at most one phase
\* is in progress, and a run that returns has completed all six, also those
\* that imported nothing.
C2_PhasesInOrder ==
    /\ IsPrefix(started, PhaseOrder)
    /\ IsPrefix(completed, started)
    /\ Len(started) - Len(completed) <= 1
    /\ pc = "begin" => started = completed
    /\ pc = "end" => Len(started) = Len(completed) + 1 /\ phase = started[Len(started)]
    /\ DOMAIN stats = {completed[i] : i \in 1..Len(completed)}
    /\ outcome = "returned" => completed = PhaseOrder

\* A run returned although its first phases imported nothing.
C2_Witness ==
    /\ outcome = "returned"
    /\ completed = PhaseOrder
    /\ stats["keywords"] = 0
    /\ stats["clusters"] = 0
    /\ stats["gaps"] > 0

\* C3: when the login at the start of import_full_dataset fails, the call
\* ends at once with empty statistics: no phase has started, no upstream
\* fetch and no graph statement was made, and the graph is as it was.
C3_AuthFailureAborts ==
    [][(pc = "login" /\ ~authenticated') =>
          /\ pc' = "idle"
          /\ outcome' = "aborted"
          /\ DOMAIN stats' = {}
          /\ graph' = graph
          /\ fetches' = 0
          /\ queries' = 0
          /\ started' = <<>>
          /\ completed' = <<>>]_vars

\* A run was aborted over a store that holds data and a service that has
\* some.
C3_Witness ==
    /\ outcome = "aborted"
    /\ pc = "idle"
    /\ graph # EmptyGraph
    /\ upstream.status = 200

(***************************************************************************)
(* Properties of classify_question (SpecClassify)                          *)
(***************************************************************************)
\* The categories in the documented priority order.
PriorityOrder ==
    << [type |-> "feature", phrases |-> FEATURE_PHRASES],
       [type |-> "pain_point", phrases |-> PAIN_POINT_PHRASES],
       [type |-> "comparison", phrases |-> COMPARISON_PHRASES],
       [type |-> "evidence", phrases |-> EVIDENCE_PHRASES],
       [type |-> "how_to", phrases |-> HOW_TO_PHRASES],
       [type |-> "recommendation", phrases |-> RECOMMENDATION_PHRASES] >>

\* The places of the categories one of whose phrases occurs in the
\* lower-cased text.
Matching(text) ==
    {k \in 1..Len(PriorityOrder) :
        \E i \in 1..Len(PriorityOrder[k].phrases) :
            Contains(lower(text), PriorityOrder[k].phrases[i])}

Answered == result.q_type # "none"

Returned == Answered /\ ~result.out.raised

\* The call went through retrieve_feature_info / retrieve_pain_point_solution.
FeatureCategory == result.q_type \in {"feature", "how_to"}
PainPointCategory == result.q_type \in {"pain_point", "recommendation", "product"}

\* C5: when retrieval yields no record, a FEATURE question gets the feature
\* fallback and a PAIN_POINT question the pain-point fallback, each with
\* confidence 0.0, no citations and an empty graph path.
C5_NoDataFallback ==
    (Answered /\ IsEmpty(result.data)
       /\ result.q_type \in {"feature", "pain_point"}) =>
        /\ ~result.out.raised
        /\ result.out.answer.confidence = 0
        /\ result.out.answer.citations = <<>>
        /\ result.out.answer.graph_path = <<>>
        /\ result.out.answer.answer_text =
             IF result.q_type = "feature"
             THEN "I don't have information about that feature in the knowledge graph."
             ELSE "I don't have specific solutions for that issue in the knowledge graph."

\* A pain-point question whose keywords were queried against a graph with
\* features and found nothing.
C5_Witness ==
    /\ Answered
    /\ result.q_type = "pain_point"
    /\ IsEmpty(result.data)
    /\ Len(result.issued) >= 2
    /\ kg.Feature # <<>>

\* C6 as stated: a question that fits no category's phrases gets the "not
\* sure" answer with confidence 0.2.
C6_UnclassifiableGetsNotSure ==
    (Answered /\ Matching(question) = {}) =>
        /\ ~result.out.raised
        /\ result.out.answer.answer_text =
             "I'm not sure how to answer that type of question yet."
        /\ result.out.answer.confidence = 2

\* C6 amended: no question gets the "not sure" answer; a question that fits
\* no category's phrases is a PRODUCT question, answered from the pain-point
\* retrieval, with the pain-point fallback and confidence 0.0 when that
\* yields no record.
C6_NotSureNeverReturned ==
    /\ Returned =>
         result.out.answer.answer_text #
            "I'm not sure how to answer that type of question yet."
    /\ (Answered /\ Matching(question) = {}) =>
         /\ result.q_type = "product"
         /\ IsEmpty(result.data) =>
              /\ ~result.out.raised
              /\ result.out.answer.confidence = 0
              /\ result.out.answer.answer_text =
                   "I don't have specific solutions for that issue in the knowledge graph."

\* A question that fits no phrase set was answered without a record.
C6_Witness ==
    /\ Answered
    /\ Matching(question) = {}
    /\ IsEmpty(result.data)
    /\ result.q_type = "product"

\* C7: an Answer that answer_question returns carries the question asked
\* and a confidence between 0 and 1 (0 and 10 tenths).
C7_QuestionAndConfidenceRange ==
    Returned =>
        /\ result.out.answer.question = question
        /\ result.out.answer.confidence >= 0
        /\ result.out.answer.confidence <= 10

\* An answer composed from a record, at the upper end of the range.
C7_Witness ==
    /\ Returned
    /\ ~IsEmpty(result.data)
    /\ result.out.answer.question = question
    /\ result.out.answer.confidence = 10

\* C8: a feature answer composed from a record has confidence
\* min(1.0, 0.3 * n + 0.4) for its n citations, n <= 3, and every citation
\* is that of an evidence entry of the record that has a source.
C8_FeatureConfidence ==
    (Returned /\ FeatureCategory /\ ~IsEmpty(result.data)) =>
        LET citations == result.out.answer.citations
        IN  /\ Len(citations) <= 3
            /\ result.out.answer.confidence = Min(10, 3 * Len(citations) + 4)
            /\ \A i \in 1..Len(citations) :
                 \E j \in 1..Len(result.data.evidence) :
                    /\ ~IsNull(result.data.evidence[j].source)
                    /\ Value(result.data.evidence[j].source) = citations[i].source

\* A feature record with more than 3 sourced evidence entries (and one
\* without a source) was answered.
C8_Witness ==
    /\ Returned
    /\ FeatureCategory
    /\ ~IsEmpty(result.data)
    /\ Len(result.out.answer.citations) = 3
    /\ Cardinality({j \in 1..Len(result.data.evidence) :
                       ~IsNull(result.data.evidence[j].source)}) > 3
    /\ \E j \in 1..Len(result.data.evidence) : IsNull(result.data.evidence[j].source)

\* C9: a pain-point answer composed from a record has confidence
\* min(1.0, 0.3 * solutions + 0.2 * citations + 0.2), solutions being the
\* solutions found (none when no feature relieves the pain point) and
\* citations the evidence entries with a source.
C9_PainPointConfidence ==
    (Returned /\ PainPointCategory /\ ~IsEmpty(result.data)) =>
        LET solutions_count ==
                Cardinality({j \in 1..Len(result.data.solutions) :
                                ~IsNull(result.data.solutions[j].feature)})
            citations_count ==
                Cardinality({j \in 1..Len(result.data.evidence) :
                                ~IsNull(result.data.evidence[j].source)})
        IN  result.out.answer.confidence =
                Min(10, 3 * solutions_count + 2 * citations_count + 2)

\* C10: a comparison answer has confidence 0.7 when the comparison query
\* returned a row and 0.3 when it returned none.
C10_ComparisonConfidence ==
    (Returned /\ result.q_type = "comparison" /\ result.issued # <<>>) =>
        result.out.answer.confidence = IF IsEmpty(result.data) THEN 3 ELSE 7

\* The parts of the lower-cased question between " vs " / " or " that are
\* longer than 2 characters once stripped.
ProductCandidates(text) ==
    LET parts == SplitOn(Replace(lower(text), Vs, Or), Or, <<>>)
    IN  {i \in 1..Len(parts) : Len(strip(parts[i])) > 2}

\* C11: a COMPARISON question with fewer than two product-name candidates
\* gets "Please specify two products to compare." with confidence 0.0, no
\* exception is raised and no graph query is issued.
C11_TwoProductsMessage ==
    (Answered /\ result.q_type = "comparison"
       /\ Cardinality(ProductCandidates(question)) < 2) =>
        /\ ~result.out.raised
        /\ result.out.answer.answer_text = "Please specify two products to compare."
        /\ result.out.answer.confidence = 0
        /\ result.out.answer.citations = <<>>
        /\ result.issued = <<>>

\* "Compare X vs Y" (one candidate, "compare x") asked of a graph that holds
\* products.
C11_Witness ==
    /\ Answered
    /\ question = Q_CompareXVsY
    /\ result.q_type = "comparison"
    /\ Cardinality(ProductCandidates(question)) = 1
    /\ kg.Product # <<>>
    /\ result.issued = <<>>
    /\ ~result.out.raised

\* The words of the question longer than n characters, in order.
WordsLongerThan(text, n) ==
    LET words == split(text)
    IN  SelectIdx(words, {i \in 1..Len(words) : Len(words[i]) > n}, 1)

\* The rows of the keyword query of the call's category.
RowsFor(keyword) ==
    IF FeatureCategory THEN feature_query(kg, keyword)
    ELSE IF PainPointCategory THEN pain_point_query(kg, keyword)
    ELSE verify_claim_with_evidence(kg, keyword)

\* The queries issued are those of the first keywords of `seeds`, up to the
\* first with rows, whose first row is the record; all of them and no
\* record when none has rows.
FirstMatchOver(seeds) ==
    LET n == Len(result.issued)
    IN  /\ IsPrefix(result.issued, seeds)
        /\ \A i \in 1..(n - 1) : RowsFor(seeds[i]) = <<>>
        /\ IF IsEmpty(result.data)
           THEN /\ n = Len(seeds)
                /\ n > 0 => RowsFor(seeds[n]) = <<>>
           ELSE /\ n > 0
                /\ RowsFor(seeds[n]) # <<>>
                /\ result.data = RowsFor(seeds[n])[1]

\* C12: keyword-seeded retrieval (feature and pain-point records) tries the
\* keywords in their order in the question, returns the first row of the
\* first keyword with a non-empty result, queries no later keyword, and
\* returns an empty record only when every keyword was queried in vain.
C12_FirstMatchWins ==
    (Answered /\ (FeatureCategory \/ PainPointCategory)) =>
        FirstMatchOver(WordsLongerThan(question, 3))

\* The second of three keywords matched: the first was queried in vain, the
\* third never.
C12_Witness ==
    /\ Answered
    /\ FeatureCategory
    /\ ~IsEmpty(result.data)
    /\ Len(result.issued) = 2
    /\ Len(WordsLongerThan(question, 3)) = 3
    /\ feature_query(kg, result.issued[1]) = <<>>

\* C13 as stated: in each of the FEATURE, PAIN_POINT and EVIDENCE
\* categories the seeds are all words longer than 3 characters, tried in
\* order until one yields a result.
C13_SeedsLongerThan3 ==
    (Answered /\ result.q_type \in {"feature", "pain_point", "evidence"}) =>
        FirstMatchOver(WordsLongerThan(question, 3))

\* C13 amended: FEATURE and PAIN_POINT questions are seeded with all words
\* longer than 3 characters, tried in order until one yields a result; an
\* EVIDENCE question issues exactly one query, for its first word longer
\* than 4 characters (the empty text when it has none), and takes that
\* query's first row or no record.
C13_SeedsByCategory ==
    /\ (Answered /\ result.q_type \in {"feature", "pain_point"}) =>
          FirstMatchOver(WordsLongerThan(question, 3))
    /\ (Answered /\ result.q_type = "evidence") =>
          LET seeds == WordsLongerThan(question, 4)
              seed == IF seeds = <<>> THEN <<>> ELSE seeds[1]
          IN  /\ result.issued = <<seed>>
              /\ IF RowsFor(seed) = <<>> THEN IsEmpty(result.data)
                 ELSE result.data = RowsFor(seed)[1]

\* An EVIDENCE question whose first word has 4 characters: that word is not
\* queried, the first longer word is, it yields nothing, and the later
\* words are not tried.
C13_Witness ==
    /\ Answered
    /\ result.q_type = "evidence"
    /\ question = Q_WhatEvidence
    /\ Len(split(question)[1]) = 4
    /\ result.issued = <<split(question)[2]>>
    /\ Len(WordsLongerThan(question, 4)) > 1
    /\ IsEmpty(result.data)
    /\ kg.Claim # <<>>

(***************************************************************************)
(* Properties of concurrent answer_question calls (SpecCalls)              *)
(***************************************************************************)
\* C14: whatever the interleaving of the calls' steps, a call that has
\* ended has returned (or raised) what answer_question returns for its
\* question when run alone on the graph, and no step changes the graph.
C14_CallsIndependent ==
    /\ [](\A c \in Calls :
            calls[c].pc = "done" =>
                calls[c].out = answer_question(kg, calls[c].question).out)
    /\ [][kg' = kg]_vars

\* Two calls with different questions, each overlapped by steps of the
\* other, have both returned an answer composed from a record.
C14_Witness ==
    /\ kg = SharedKG
    /\ \A c \in Calls :
        /\ calls[c].pc = "done"
        /\ calls[c].overlapped
        /\ ~calls[c].out.raised
    /\ calls[1].question = Q_WhatIsCoolingGel
    /\ calls[2].question = Q_HowToSolveBackPain
    /\ calls[1].out.answer.confidence > 0
    /\ calls[2].out.answer.confidence > 0

(***************************************************************************)
(* Properties of the analytical queries (SpecGeo)                          *)
(***************************************************************************)
\* The last query was `op`.
Ran(op) == last.op = op

\* The unordered pair of clusters of a row of find_structure_holes.
PairOf(row) == {row.cluster_a, row.cluster_b}

\* C15: the result of find_structure_holes never holds a pair in both
\* orders, never holds the same unordered pair of clusters twice, and never
\* pairs a cluster with itself.
C15_GapSymmetry ==
    Ran("find_structure_holes") =>
        /\ \A i, j \in 1..Len(last.rows) :
            i # j => PairOf(last.rows[i]) # PairOf(last.rows[j])
        /\ \A i \in 1..Len(last.rows) :
            last.rows[i].cluster_a # last.rows[i].cluster_b

\* The clusters of the graph joined by a BRIDGES relationship.
Bridged(g, i, j) ==
    \E k \in 1..Len(g.BRIDGES) : g.BRIDGES[k] \in {<<i, j>>, <<j, i>>}

\* score = bridge_penalty * ((modularity_A + modularity_B) / 2)
\*           * (1 - |size_A - size_B| / (size_A + size_B + 1))
\* for the fraction `score`, modularities in hundredths and a penalty of 1.0
\* without and 0.3 with a bridge.
IsOpportunityScore(score, a, b, bridged) ==
    LET total == Value(a.size) + Value(b.size) + 1
        diff == Abs(Value(a.size) - Value(b.size))
        penalty == IF bridged THEN 3 ELSE 10
    IN  score[1] * 10 * 200 * total
            = score[2] * penalty * (Value(a.modularity) + Value(b.modularity))
                * (total - diff)

\* C16: every row of find_structure_holes(min_score, limit) is a pair of
\* clusters of the graph whose opportunity score, by the formula with the
\* bridge penalty, is the row's score and is at least min_score; the rows
\* are in descending order of score and there are at most `limit` of them.
C16_HolesScoredOrderedLimited ==
    Ran("find_structure_holes") =>
        /\ Len(last.rows) <= last.limit
        /\ \A n \in 1..Len(last.rows) :
            /\ ~IsNull(last.rows[n].key)
            /\ FracLeq(<<last.min_score, 100>>, Value(last.rows[n].key))
            /\ \E i, j \in 1..Len(geo.TopicCluster) :
                /\ i # j
                /\ geo.TopicCluster[i].name = last.rows[n].cluster_a
                /\ geo.TopicCluster[j].name = last.rows[n].cluster_b
                /\ ~IsNull(geo.TopicCluster[i].modularity)
                /\ ~IsNull(geo.TopicCluster[j].modularity)
                /\ IsOpportunityScore(Value(last.rows[n].key), geo.TopicCluster[i],
                                      geo.TopicCluster[j], Bridged(geo, i, j))
        /\ \A n \in 1..Len(last.rows) - 1 :
            FracLeq(Value(last.rows[n + 1].key), Value(last.rows[n].key))

\* Clusters A (modularity 0.8) and B (0.6) of equal size with a bridge, and
\* a third cluster: with min_score 0.21 the three pairs are returned in
\* strictly descending order, the bridged pair last with a score of 0.21.
C16_Witness ==
    /\ Ran("find_structure_holes")
    /\ last.min_score = 21
    /\ Len(last.rows) = 3
    /\ Bridged(geo, 1, 2)
    /\ geo.TopicCluster[1].modularity = Some(80)
    /\ geo.TopicCluster[2].modularity = Some(60)
    /\ geo.TopicCluster[1].size = geo.TopicCluster[2].size
    /\ PairOf(last.rows[3]) = {geo.TopicCluster[1].name, geo.TopicCluster[2].name}
    /\ FracEq(Value(last.rows[3].key), <<21, 100>>)
    /\ FracLess(Value(last.rows[3].key), Value(last.rows[2].key))
    /\ FracLess(Value(last.rows[2].key), Value(last.rows[1].key))

\* The graph node of a row of calculate_citation_ready_score.
AssetOf(g, row) == g.Asset[CHOOSE i \in 1..Len(g.Asset) : g.Asset[i].id = row.asset_id]

\* The evidence nodes the trace-back of an asset reaches.
EvidenceOf(asset) == {asset.paths[i].evidence : i \in 1..Len(asset.paths)}

\* The credibilities (in tenths) of the matches of the trace-back that
\* carry one.
Credibilities(asset) ==
    SelectIdx(asset.paths, {i \in 1..Len(asset.paths) :
                  ~IsNull(asset.paths[i].credibility)}, 1)

\* score = 0.6 * (mention_count / 10) + 0.4 * ((evidence_count / 5) * avg)
\* for the fraction `score` and the average avg_sum / (10 * avg_count).
IsCitationScore(score, mention_count, evidence_count, avg_sum, avg_count) ==
    score[1] * 500 * avg_count
        = score[2] * (30 * mention_count * avg_count + 4 * evidence_count * avg_sum)

\* The band of the fraction `score`: compared with 0.8, 0.6 and 0.4,
\* boundaries included.
BandOf(score) ==
    IF 10 * score[1] >= 8 * score[2] THEN "Excellent"
    ELSE IF 10 * score[1] >= 6 * score[2] THEN "Good"
    ELSE IF 10 * score[1] >= 4 * score[2] THEN "Fair"
    ELSE "Needs Improvement"

Uncached(asset) == [asset EXCEPT !.citation_ready_score = Null]

\* The scores of a result by asset.
ScoresOf(rows) ==
    {<<rows[n].asset_id, rows[n].citation_ready_score>> : n \in 1..Len(rows)}

\* C18: a call of calculate_citation_ready_score changes nothing in the
\* graph but the citation_ready_score of the assets it matched; a score
\* that was stored by an earlier call is stored again with the same value;
\* and a call that repeats the previous call leaves the graph as it is and
\* returns the same scores.
C18_IdempotentCacheWrite ==
    [][ last'.op = "calculate_citation_ready_score" =>
          /\ [geo' EXCEPT !.Asset = geo.Asset] = geo
          /\ Len(geo'.Asset) = Len(geo.Asset)
          /\ \A i \in 1..Len(geo.Asset) :
              /\ Uncached(geo'.Asset[i]) = Uncached(geo.Asset[i])
              /\ geo'.Asset[i] # geo.Asset[i] =>
                    \E n \in 1..Len(last'.rows) :
                        /\ last'.rows[n].asset_id = geo.Asset[i].id
                        /\ (IsNull(last'.asset_id)
                              \/ Value(last'.asset_id) = geo.Asset[i].id)
              /\ ~IsNull(geo.Asset[i].citation_ready_score) =>
                    geo'.Asset[i] = geo.Asset[i]
          /\ \A n \in 1..Len(last'.rows) :
                AssetOf(geo', last'.rows[n]).citation_ready_score
                    = Some(last'.rows[n].citation_ready_score)
          /\ last'.again =>
                /\ geo' = geo
                /\ ScoresOf(last'.rows) = ScoresOf(last.rows)
      ]_vars

\* A second call in a row for one asset of two: its score is stored and
\* returned, and the other asset has none.
C18_Witness ==
    /\ Ran("calculate_citation_ready_score")
    /\ last.again
    /\ last.asset_id = Some("a1")
    /\ Len(geo.Asset) = 2
    /\ Len(last.rows) = 1
    /\ \E i, j \in 1..2 :
        /\ geo.Asset[i].id = "a1"
        /\ geo.Asset[i].citation_ready_score = Some(last.rows[1].citation_ready_score)
        /\ i # j
        /\ IsNull(geo.Asset[j].citation_ready_score)

\* The graph node of a row of rank_prompts_by_priority.
PromptOfRow(g, row) ==
    g.Prompt[CHOOSE i \in 1..Len(g.Prompt) : g.Prompt[i].text = row.prompt_text]

\* score = 0.4 * gap + 0.3 * (severity / 10) + 0.2 * (1 / (assets + 1))
\*           + 0.1 * (priority / 10)
\* for the fraction `score`, a gap score in hundredths, and 0.5 for a null
\* gap score or severity.
IsFinalScore(score, gap_score, severity, assets, priority) ==
    LET gap == IF IsNull(gap_score) THEN 50 ELSE Value(gap_score)
        pain == IF IsNull(severity) THEN 5 ELSE Value(severity)
    IN  score[1] * 1000 * (assets + 1)
            = score[2] * ((4 * gap + 30 * pain + 10 * priority) * (assets + 1) + 200)

\* The rows of a result are scored by the formula from a gap and a pain
\* point of their prompt.
ScoredByFormula(rows) ==
    \A n \in 1..Len(rows) :
        LET prompt == PromptOfRow(geo, rows[n])
        IN  /\ ~IsNull(rows[n].key)
            /\ \E gap \in {OrNull(prompt.gaps)[i] : i \in 1..Len(OrNull(prompt.gaps))},
                  pain \in {OrNull(prompt.pains)[i] : i \in 1..Len(OrNull(prompt.pains))} :
                    IsFinalScore(Value(rows[n].key), gap, pain,
                                 Cardinality({prompt.assets[i] : i \in 1..Len(prompt.assets)}),
                                 Value(prompt.priority))

\* C19: rank_prompts_by_priority returns at most `limit` rows in descending
\* order of final_score, each scored by the formula, with one row per
\* prompt.
C19_RankedOneRowPerPrompt ==
    Ran("rank_prompts_by_priority") =>
        /\ Len(last.rows) <= last.limit
        /\ ScoredByFormula(last.rows)
        /\ \A n \in 1..Len(last.rows) - 1 :
            FracLeq(Value(last.rows[n + 1].key), Value(last.rows[n].key))
        /\ \A m, n \in 1..Len(last.rows) :
            m # n => last.rows[m].prompt_text # last.rows[n].prompt_text

(***************************************************************************)
(* Properties of generate_prompts_from_gaps (SpecPrompts)                  *)
(***************************************************************************)
\* The text of the prompt of a gap.
TextFor(gap) == "How are " \o gap.topic_a \o " and " \o gap.topic_b \o " related?"

\* The last position of the list whose gap gives the text of the gap at i.
LastWithText(gaps, i) ==
    CHOOSE j \in i..Len(gaps) :
        /\ TextFor(gaps[j]) = TextFor(gaps[i])
        /\ \A k \in (j + 1)..Len(gaps) : TextFor(gaps[k]) # TextFor(gaps[i])

\* The graph holds exactly one prompt with the text of the gap at i; it is
\* exploratory, carries the score of the gap at j and the priority
\* min(j, 10), and the Gap node of the gap at i SUGGESTS it.
PromptFor(g, gaps, i, j) ==
    LET at == {n \in 1..Len(g.Prompt) : g.Prompt[n].text = TextFor(gaps[i])}
    IN  /\ Cardinality(at) = 1
        /\ \A n \in at :
            /\ g.Prompt[n].type = "exploratory"
            /\ g.Prompt[n].gap_score = gaps[j].opportunity_score
            /\ g.Prompt[n].priority = (IF j < 10 THEN j ELSE 10)
            /\ g.Prompt[n].priority \in 1..10
            /\ \A m \in 1..Len(g.Gap) :
                (g.Gap[m].topic_a = gaps[i].topic_a /\ g.Gap[m].topic_b = gaps[i].topic_b)
                    => \E r \in 1..Len(g.SUGGESTS) :
                          g.SUGGESTS[r].from = m /\ g.SUGGESTS[r].to = n

\* C20 as stated: after generate_prompts_from_gaps(gaps), every gap of the
\* list has exactly one exploratory prompt "How are {topic_a} and {topic_b}
\* related?" with the gap's score and the priority min(i, 10) of the gap's
\* own position i, suggested by its Gap node.
C20_PromptPerGapByPosition ==
    Ran("generate_prompts_from_gaps") =>
        \A i \in 1..Len(last.gaps) : PromptFor(graph, last.gaps, i, i)

\* C20: after generate_prompts_from_gaps(gaps), every gap of the list has
\* exactly one exploratory prompt "How are {topic_a} and {topic_b}
\* related?", suggested by its Gap node; its score and its priority
\* min(j, 10) are those of the last position j of the list that gives the
\* same text, which is the gap's own position when no later gap repeats its
\* topics.
C20_PromptPerGapByLastPosition ==
    Ran("generate_prompts_from_gaps") =>
        \A i \in 1..Len(last.gaps) :
            PromptFor(graph, last.gaps, i, LastWithText(last.gaps, i))

\* More than 10 gaps of different pairs, imported and then turned into
\* prompts: each has its prompt with the priority of its position, the ones
\* past the tenth with priority 10, each suggested by its Gap node.
C20_Witness ==
    /\ Ran("generate_prompts_from_gaps")
    /\ Len(last.gaps) > 10
    /\ last.count = Len(last.gaps)
    /\ Len(graph.Prompt) = Len(last.gaps)
    /\ Len(graph.Gap) = Len(last.gaps)
    /\ Len(graph.SUGGESTS) = Len(last.gaps)
    /\ \A i \in 1..Len(last.gaps) :
        /\ LastWithText(last.gaps, i) = i
        /\ PromptFor(graph, last.gaps, i, i)
    /\ \E n \in 1..Len(graph.Prompt) :
        /\ graph.Prompt[n].text = TextFor(last.gaps[Len(last.gaps)])
        /\ graph.Prompt[n].priority = 10
        /\ graph.Prompt[n].gap_score # graph.Prompt[1].gap_score

(***************************************************************************)
(* Properties of import_gaps (SpecPrompts)                                 *)
(***************************************************************************)
\* The unordered pair of topics of a Gap node.
TopicPair(gap) == {gap.topic_a, gap.topic_b}

\* C21: after any sequence of import_gaps calls the graph never holds two
\* Gap nodes with the same unordered pair of topics.
C21_GapPerUnorderedPair ==
    \A m, n \in 1..Len(graph.Gap) :
        m # n => TopicPair(graph.Gap[m]) # TopicPair(graph.Gap[n])

(***************************************************************************)
(* Properties of the content-graph client (SpecClient)                     *)
(***************************************************************************)
\* The last fetch was `op` and returned.
Got(op) == last.op = op /\ ~last.raised

\* The community a node counts in: its label, "default" without one.
LabelOf(node) == IF node.community = None THEN "default" ELSE node.community

\* The communities present among the nodes.
LabelsOf(nodes) == {LabelOf(nodes[i]) : i \in 1..Len(nodes)}

\* The first 3 members of a community in node order, joined as a topic.
TopicOf(nodes, label) ==
    LET members == SelectIdx(nodes, {i \in 1..Len(nodes) : LabelOf(nodes[i]) = label}, 1)
        first == SubSeq(members, 1, IF Len(members) < 3 THEN Len(members) ELSE 3)
    IN  Join(" / ", [i \in 1..Len(first) |-> first[i].name])

\* The gaps of a result between the topics a and b, in this order.
GapsBetween(gaps, a, b) ==
    {i \in 1..Len(gaps) : gaps[i].topic_a = a /\ gaps[i].topic_b = b}

EmptyDefault(op) ==
    IF op = "get_graph" THEN [nodes |-> <<>>, edges |-> <<>>] ELSE <<>>

\* C23: no fetch of the client raises; a fetch whose login or GET failed
\* returns its empty default, and a call sends its request once, without a
\* retry.
C23_FetchDegradesWithoutRaising ==
    last.op \in {"get_graph", "get_concepts", "get_gaps", "get_statements",
                 "get_communities"} =>
        /\ ~last.raised
        /\ last.status # 200 => last.out = EmptyDefault(last.op)
        /\ last.gets <= 1
        /\ last.logins <= 1

(***************************************************************************)
(* Properties of check_system_health (SpecHealth)                          *)
(***************************************************************************)
\* 100 minus 50 for an offline store, 30 for fewer than 10 nodes in the
\* store and 20 without an import timestamp, floored at 0.
ExpectedHealthScore(g, status) ==
    LET score == 100 - (IF status = "offline" THEN 50 ELSE 0)
                     - (IF TotalNodes(g) < 10 THEN 30 ELSE 0)
                     - (IF g.Keyword = <<>> THEN 20 ELSE 0)
    IN  IF score < 0 THEN 0 ELSE score

\* C24: check_system_health returns a SystemHealth whose health_score is
\* 100 minus the penalties that apply, floored at 0 and so within 0..100,
\* and whose neo4j_status is "online" or "offline"; with the store offline
\* it still returns, with status "offline".
C24_HealthScoreByPenalties ==
    Ran("check_system_health") =>
        /\ ~last.result.raised
        /\ last.result.health.neo4j_status \in {"online", "offline"}
        /\ last.result.health.health_score \in 0..100
        /\ last.result.health.health_score
              = ExpectedHealthScore(graph, last.result.health.neo4j_status)
        /\ (\A q \in 1..3 : ~last.answers[q]) =>
              last.result.health.neo4j_status = "offline"

(***************************************************************************)
(* Properties of get_pipeline_metrics (SpecGeo)                            *)
(***************************************************************************)
\* C26: in every reachable graph state get_pipeline_metrics reports an
\* avg_citation_score within [0, 1], 0.0 when no asset carries a score, a
\* total_prompts of at least 0 and at most 5 top opportunity gaps.
C26_PipelineMetricsInRange ==
    Ran("get_pipeline_metrics") =>
        /\ FracLeq(<<0, 1>>, last.metrics.avg_citation_score)
        /\ FracLeq(last.metrics.avg_citation_score, <<1, 1>>)
        /\ (\A i \in 1..Len(geo.Asset) : IsNull(geo.Asset[i].citation_ready_score))
              => FracEq(last.metrics.avg_citation_score, <<0, 1>>)
        /\ last.metrics.total_prompts >= 0
        /\ Len(last.metrics.top_opportunity_gaps) <= 5

(***************************************************************************)
(* Two import_full_dataset runs against one store (SpecConcurrent)         *)
(*                                                                         *)
(* Each run has its own client and its own locals; the store is shared.    *)
(* A statement (one session.run) is one step: the store applies it whole.  *)
(***************************************************************************)
ImportRuns == {1, 2}

Node(n, b, d, c) ==
    [name |-> n, betweenness_centrality |-> b, degree |-> d, community |-> c]

\* The upstream node lists the two runs import: labelled keywords, one name
\* listed twice, an unlabelled keyword, a list longer than the limit of
\* get_communities.
RunNodeLists ==
    { <<Node("k1", 2, 3, "cA"), Node("k2", 1, 1, "cB")>>,
      <<Node("k1", 2, 3, "cA"), Node("k1", 1, 2, "cB")>>,
      <<Node("k3", 2, 1, None), Node("k2", 0, 2, "cA"), Node("k1", 2, 3, "cA")>>,
      <<Node("k2", 1, 1, "cB")>> }

RunDatasets ==
    { [status |-> 200, nodes |-> n, edges |-> e,
       has_gaps |-> g.has_gaps, gaps |-> g.gaps] :
        n \in RunNodeLists, e \in EdgeLists, g \in GapLists }

\* The same keys with other attribute values: what the service holds after
\* its graph was recomputed between the fetches of the two runs.
Revised(up) ==
    [up EXCEPT
        !.nodes = [i \in 1..Len(@) |->
                     [@[i] EXCEPT !.betweenness_centrality = @ + 1,
                                  !.degree = @ + 1]],
        !.edges = [i \in 1..Len(@) |-> [@[i] EXCEPT !.weight = @ + 1]],
        !.gaps = [i \in 1..Len(@) |-> [@[i] EXCEPT !.opportunity_score = @ + 1]]]

NoWriter == [p \in {PhaseOrder[i] : i \in 1..Len(PhaseOrder)} |-> 0]

\* Both runs have logged in and are about to fetch the concepts; `base` is
\* the store they started from, `writer` the run whose statement of a phase
\* ran last.
RunsFrom(g, up1, up2) ==
    [base |-> g,
     of |-> [r \in ImportRuns |->
                [pc |-> "begin", phase |-> "keywords", locals |-> NoLocals,
                 up |-> IF r = 1 THEN up1 ELSE up2]],
     writer |-> NoWriter]

ConcurrentInit ==
    /\ RagIdle
    /\ ClassifyIdle
    /\ CallsIdle
    /\ GeoIdle
    /\ pipe = NoPipe
    /\ graph \in SeedGraphs
    /\ upstream \in RunDatasets
    /\ runs \in {RunsFrom(graph, upstream, up2) :
                    up2 \in {upstream, Revised(upstream)}}
    /\ pc = "idle"
    /\ phase = ""
    /\ authenticated = FALSE
    /\ locals = NoLocals
    /\ stats = <<>>
    /\ outcome = "none"
    /\ fetches = 0
    /\ queries = 0
    /\ started = <<>>
    /\ completed = <<>>
    /\ prev = NoCounts
    /\ cur = NoCounts

\* Run r fetches the upstream data of its phase.
RunBegin(r) ==
    /\ runs.of[r].pc = "begin"
    /\ runs' = [runs EXCEPT
                  !.of[r].locals = FetchFor(runs.of[r].phase, runs.of[r].up, @),
                  !.of[r].pc = "end"]
    /\ UNCHANGED <<importVars, pipe>>
    /\ UNCHANGED <<ragVars, classifyVars, callVars, geoVars>>

\* The statement of run r's phase is applied to the store.
RunEnd(r) ==
    /\ runs.of[r].pc = "end"
    /\ LET p == runs.of[r].phase
           next == PhaseAfter(p)
       IN  /\ graph' = StatementFor(p, graph, runs.of[r].locals).graph
           /\ runs' = [runs EXCEPT
                         !.of[r].phase = next,
                         !.of[r].pc = IF next = "" THEN "done" ELSE "begin",
                         !.writer[p] = r]
    /\ UNCHANGED <<upstream, pc, phase, authenticated, locals, stats, outcome,
                   fetches, queries, started, completed, prev, cur, pipe>>
    /\ UNCHANGED <<ragVars, classifyVars, callVars, geoVars>>

ConcurrentNext == \E r \in ImportRuns : RunBegin(r) \/ RunEnd(r)

SpecConcurrent == ConcurrentInit /\ [][ConcurrentNext]_vars

(***************************************************************************)
(* Properties of concurrent imports (SpecConcurrent)                       *)
(***************************************************************************)
BothDone == runs # NoRuns /\ \A r \in ImportRuns : runs.of[r].pc = "done"

\* The store after run r alone, from the store both runs started from.
Solo(r) == RunPhases("keywords", runs.base, runs.of[r].up, NoLocals)

\* The statement that writes the nodes or relationships of a label.
WrittenIn ==
    [Keyword |-> "keywords", TopicCluster |-> "clusters",
     BELONGS_TO |-> "cluster_links", CO_OCCURS_WITH |-> "cooccurrences",
     Gap |-> "gaps", Prompt |-> "prompts", SUGGESTS |-> "prompts"]

\* C25: when two import_full_dataset runs of the same upstream dataset have
\* interleaved statement by statement and both have returned, the store is
\* the one a single run leaves; it holds no two Keywords or TopicClusters
\* of one name, no two Gaps of one (topic_a, topic_b), no two Prompts of
\* one text and no two relationships between the same two nodes; and where
\* the two runs wrote different attribute values, the nodes and
\* relationships of each label are those of the run whose statement for
\* that label ran last.
C25_ConcurrentImportsConverge ==
    BothDone =>
        /\ (runs.of[1].up = runs.of[2].up => graph = Solo(1))
        /\ NoDuplicates(graph)
        /\ \A label \in DOMAIN WrittenIn :
              graph[label] = Solo(runs.writer[WrittenIn[label]])[label]

C25_Witness ==
    /\ BothDone
    /\ runs.of[1].up # runs.of[2].up
    /\ runs.writer["keywords"] = 1
    /\ runs.writer["gaps"] = 2
    /\ graph.Keyword # <<>>
    /\ graph.Gap # <<>>
    /\ graph # Solo(1)
    /\ graph # Solo(2)

(***************************************************************************)
(* Properties of the evidence branch (SpecRag)                             *)
(***************************************************************************)
\* C27: a returned EVIDENCE question has an Answer: with no claim row the
\* no-data answer of confidence 0.0, with a claim row an answer composed
\* from the row, its citations taken from the row's supporting evidence;
\* the call never ends with an exception.
C27_EvidenceAlwaysAnswered ==
    (Answered /\ result.q_type = "evidence") =>
        /\ ~result.out.raised
        /\ IsEmpty(result.data) =>
              /\ result.out.answer.confidence = 0
              /\ result.out.answer.answer_text = NoFeatureText
        /\ ~IsEmpty(result.data) =>
              /\ result.out.answer.answer_text # NoFeatureText
              /\ Len(result.out.answer.citations)
                    <= Len(result.data.supporting_evidence)

(***************************************************************************)
(* A full import into an empty store, then the structure-hole query        *)
(* (SpecFresh)                                                             *)
(***************************************************************************)
\* Upstream node lists: two communities; more labelled nodes than
\* get_communities reads, the extra one of a known and of an unknown
\* community; an unlabelled node; one name listed twice; more nodes than
\* import_full_dataset reads.
FreshNodeLists ==
    { <<Node("k1", 2, 3, "cA"), Node("k2", 1, 1, "cB")>>,
      <<Node("k1", 3, 3, "cA"), Node("k2", 2, 1, "cB"), Node("k3", 1, 1, "cA")>>,
      <<Node("k1", 3, 3, "cA"), Node("k2", 2, 1, "cA"), Node("k3", 1, 1, "cC")>>,
      <<Node("k3", 2, 1, None), Node("k2", 0, 2, "cA")>>,
      <<Node("k1", 2, 3, "cA"), Node("k1", 1, 2, "cB")>>,
      <<Node("k1", 5, 3, "cA"), Node("k2", 4, 1, "cB"), Node("k3", 3, 1, "cA"),
        Node("k4", 2, 1, "cB"), Node("k5", 1, 1, "cA")>> }

FreshDatasets ==
    { [status |-> 200, nodes |-> n, edges |-> e,
       has_gaps |-> g.has_gaps, gaps |-> g.gaps] :
        n \in FreshNodeLists, e \in EdgeLists, g \in GapLists }

FreshInit ==
    /\ RagIdle
    /\ ClassifyIdle
    /\ CallsIdle
    /\ SessionsIdle
    /\ GeoIdle
    /\ graph = EmptyGraph
    /\ upstream \in FreshDatasets \cup {Unavailable}
    /\ pc = "idle"
    /\ phase = ""
    /\ authenticated = FALSE
    /\ locals = NoLocals
    /\ stats = <<>>
    /\ outcome = "none"
    /\ fetches = 0
    /\ queries = 0
    /\ started = <<>>
    /\ completed = <<>>
    /\ prev = NoCounts
    /\ cur = NoCounts

\* The Keywords that BELONG_TO the cluster with id c, as the query matches
\* them.
MembersOf(g, c) ==
    LET rels == SelectIdx(g.BELONGS_TO,
                    {i \in 1..Len(g.BELONGS_TO) : g.BELONGS_TO[i].to = c}, 1)
    IN  [i \in 1..Len(rels) |->
            Kw(g.Keyword[rels[i].from].name, g.Keyword[rels[i].from].betweenness)]

\* The importer's store as the queries of GEOQueries see it: the importer
\* creates no BRIDGES relationship and no Asset.
StoreOf(g) ==
    [EmptyGeo EXCEPT
        !.TopicCluster =
            [c \in 1..Len(g.TopicCluster) |->
                Cluster(g.TopicCluster[c].name,
                        Some(g.TopicCluster[c].modularity),
                        Some(g.TopicCluster[c].size),
                        MembersOf(g, c))]]

FreshMinScores == {0, 1, 70}

\* find_structure_holes is called while no import is in progress.
FindHolesInStore ==
    /\ pc = "idle"
    /\ \E min_score \in FreshMinScores, limit \in Limits :
        \E rows \in find_structure_holes(StoreOf(graph), min_score, limit) :
            last' = [op |-> "find_structure_holes", min_score |-> min_score,
                     limit |-> limit, rows |-> rows,
                     imported |-> outcome = "returned"]
    /\ UNCHANGED <<geo, importVars, ragVars, classifyVars, callVars, sessionVars>>

FreshNext ==
    \/ StartImport
    \/ Login
    \/ BeginPhase
    \/ EndPhase
    \/ StatementRaises
    \/ FindHolesInStore

SpecFresh == FreshInit /\ [][FreshNext]_vars

(***************************************************************************)
(* Properties of the freshly imported store (SpecFresh)                    *)
(***************************************************************************)
HolesAfterImport == last.op = "find_structure_holes" /\ last.imported

\* C28: after a full import into an empty store every TopicCluster has
\* modularity 0; every row find_structure_holes returns then has the
\* opportunity score 0, and with a min_opportunity_score above 0 it returns
\* no row.
C28_FreshImportHasNoHoles ==
    /\ outcome = "returned" =>
          \A c \in 1..Len(graph.TopicCluster) : graph.TopicCluster[c].modularity = 0
    /\ HolesAfterImport =>
          /\ \A i \in 1..Len(last.rows) : FracEq(Value(last.rows[i].key), <<0, 1>>)
          /\ last.min_score > 0 => last.rows = <<>>

C28_Witness ==
    /\ HolesAfterImport
    /\ outcome = "returned"
    /\ Len(graph.TopicCluster) >= 2
    /\ graph.BELONGS_TO # <<>>
    /\ last.min_score > 0
    /\ last.rows = <<>>

LinksFrom(g, k) == {i \in 1..Len(g.BELONGS_TO) : g.BELONGS_TO[i].from = k}

LinksTo(g, c) == {i \in 1..Len(g.BELONGS_TO) : g.BELONGS_TO[i].to = c}

\* C29: after a full import into an empty store every Keyword with a
\* community label has exactly one BELONGS_TO relationship, to the
\* TopicCluster of that name, and the size of every TopicCluster is the
\* number of Keywords that BELONG_TO it.
C29_MembershipMatchesSize ==
    outcome = "returned" =>
        /\ \A k \in 1..Len(graph.Keyword) :
              graph.Keyword[k].community # "uncategorized" =>
                  /\ Cardinality(LinksFrom(graph, k)) = 1
                  /\ \A i \in LinksFrom(graph, k) :
                        graph.TopicCluster[graph.BELONGS_TO[i].to].name
                            = graph.Keyword[k].community
        /\ \A c \in 1..Len(graph.TopicCluster) :
              graph.TopicCluster[c].size = Cardinality(LinksTo(graph, c))

(***************************************************************************)
(* DataAcquisitionPipeline.run_pipeline (SpecPipeline)                     *)
(*   src/data_acquisition_pipeline.py                                      *)
(***************************************************************************)
\* Most URLs in one call.
MaxUrls == 2

\* What Firecrawl returns for a URL as data.metadata.title and
\* data.markdown: a page with doubled blanks and a special character, a
\* page without a title, a page with no text.
Pages ==
    [u1 |-> [title |-> <<"T", "1">>,
             content |-> <<"a", " ", " ", "b", " ", "#", " ", "c", ".", " ">>],
     u2 |-> [title |-> <<>>, content |-> <<"x", "\n", "y">>],
     u3 |-> [title |-> <<"T", "3">>, content |-> <<>>]]

Urls == DOMAIN Pages

RECURSIVE UrlListsOf(_)
\* The lists of distinct URLs of at most n URLs.
UrlListsOf(n) ==
    IF n = 0 THEN {<<>>}
    ELSE LET shorter == UrlListsOf(n - 1)
         IN  shorter \cup
             {l \in {Append(m, u) : m \in shorter, u \in Urls} :
                 \A i, j \in 1..Len(l) : l[i] = l[j] => i = j}

UrlLists == UrlListsOf(MaxUrls)

IsSpace(c) == c \in {" ", "\n", "\t"}

\* [\w\s.,!?;:()\-']
Kept(c) ==
    \/ \E i \in 1..26 : c = Upper[i] \/ c = Lower[i]
    \/ c \in {"0", "1", "2", "3", "4", "5", "6", "7", "8", "9", "_"}
    \/ IsSpace(c)
    \/ c \in {".", ",", "!", "?", ";", ":", "(", ")", "-", "'"}

RECURSIVE CollapseSpaces(_)
\* re.sub(r'\s+', ' ', text)
CollapseSpaces(s) ==
    IF s = <<>> THEN <<>>
    ELSE IF IsSpace(Head(s))
         THEN IF Len(s) > 1 /\ IsSpace(s[2]) THEN CollapseSpaces(Tail(s))
              ELSE <<" ">> \o CollapseSpaces(Tail(s))
         ELSE <<Head(s)>> \o CollapseSpaces(Tail(s))

\* TextProcessor.clean_text on a text without URLs: whitespace runs become
\* one blank, then the characters outside [\w\s.,!?;:()\-'] are dropped,
\* then the text is stripped.
clean_text(text) == strip(Filter(CollapseSpaces(text), Kept))

RECURSIVE AllText(_)
\* all_text of prepare_for_infranodus: title + "." when there is a title,
\* then the cleaned content.
AllText(scraped_contents) ==
    IF scraped_contents = <<>> THEN <<>>
    ELSE LET content == Head(scraped_contents)
         IN  (IF content.title # <<>> THEN <<content.title \o <<".">>>> ELSE <<>>)
             \o <<clean_text(content.content)>>
             \o AllText(Tail(scraped_contents))

\* ' '.join(all_text)
prepare_for_infranodus(scraped_contents) == JoinWords(AllText(scraped_contents))

ScrapedContent(url) ==
    [url |-> url, title |-> Pages[url].title, content |-> Pages[url].content]

\* scrape_url: the content on status 200, None on another status or when
\* the request raises.
ScrapeOutcomes == {"ok", "status", "exception"}

scrape_url(url, answer) == IF answer = "ok" THEN <<ScrapedContent(url)>> ELSE <<>>

NewStats ==
    [urls_scraped |-> 0, content_size |-> 0, keywords_imported |-> 0,
     clusters_imported |-> 0, relationships_imported |-> 0, errors |-> <<>>]

RECURSIVE ImportUpTo(_, _, _, _, _, _)
\* import_full_dataset from phase p until phase `stop` (all phases for
\* stop = ""): the store and the counts of the statements that ran.
ImportUpTo(stop, p, g, up, loc, counts) ==
    IF p = stop \/ p = "" THEN [graph |-> g, stats |-> counts]
    ELSE LET l2 == FetchFor(p, up, loc)
             out == StatementFor(p, g, l2)
         IN  ImportUpTo(stop, PhaseAfter(p), out.graph, up, l2,
                        (p :> out.count) @@ counts)

\* neo4j_stats.get(key, 0)
GetOr0(neo4j_stats, key) ==
    IF key \in DOMAIN neo4j_stats THEN neo4j_stats[key] ELSE 0

\* stats.update({...}) after import_full_dataset has returned.
UpdatedStats(statistics, neo4j_stats) ==
    [gaps_identified |-> GetOr0(neo4j_stats, "gaps"),
     prompts_generated |-> GetOr0(neo4j_stats, "prompts")]
    @@ [statistics EXCEPT
          !.keywords_imported = GetOr0(neo4j_stats, "keywords"),
          !.clusters_imported = GetOr0(neo4j_stats, "clusters"),
          !.relationships_imported =
              GetOr0(neo4j_stats, "cooccurrences")
                + GetOr0(neo4j_stats, "cluster_links")]

\* if not infranodus_success: return stats
AfterAuthenticationIgnoringFailure(ok) == "import"

AfterAuthentication(ok) == IF ok THEN "import" ELSE "finally"

PipeInit ==
    /\ RagIdle
    /\ ClassifyIdle
    /\ CallsIdle
    /\ GeoIdle
    /\ runs = NoRuns
    /\ pipe = NoPipe
    /\ graph = EmptyGraph
    /\ upstream \in FreshDatasets \cup {Unavailable}
    /\ pc = "idle"
    /\ phase = ""
    /\ authenticated = FALSE
    /\ locals = NoLocals
    /\ stats = <<>>
    /\ outcome = "none"
    /\ fetches = 0
    /\ queries = 0
    /\ started = <<>>
    /\ completed = <<>>
    /\ prev = NoCounts
    /\ cur = NoCounts

PipeUnchanged ==
    /\ UNCHANGED <<upstream, pc, phase, authenticated, locals, stats, outcome,
                   fetches, queries, started, completed, prev, cur, runs>>
    /\ UNCHANGED <<ragVars, classifyVars, callVars, geoVars>>

\* run_pipeline(urls) is called: stats is initialised and step 1 begins.
RunPipeline ==
    /\ pipe.pc = "idle"
    /\ \E urls \in UrlLists :
        pipe' = [pc |-> "scrape", urls |-> urls, todo |-> urls, failed |-> <<>>,
                 scraped_contents |-> <<>>, prepared_text |-> <<>>,
                 trace |-> <<"scrape">>, stats |-> NewStats,
                 login |-> "none", closed |-> FALSE, exception |-> "none"]
    /\ UNCHANGED graph
    /\ PipeUnchanged

\* scrape_multiple: the next URL is scraped and kept when it gave content.
ScrapeUrl ==
    /\ pipe.pc = "scrape"
    /\ pipe.todo # <<>>
    /\ \E answer \in ScrapeOutcomes :
        pipe' = [pipe EXCEPT
                   !.todo = Tail(@),
                   !.failed = IF answer = "ok" THEN @ ELSE Append(@, Head(pipe.todo)),
                   !.scraped_contents = @ \o scrape_url(Head(pipe.todo), answer)]
    /\ UNCHANGED graph
    /\ PipeUnchanged

\* scrape_multiple has returned; without content the call returns, else
\* the raw data is saved, which may fail.
ScrapeDone ==
    /\ pipe.pc = "scrape"
    /\ pipe.todo = <<>>
    /\ \E saved \in BOOLEAN :
        pipe' = [pipe EXCEPT
                   !.stats.urls_scraped = Len(pipe.scraped_contents),
                   !.exception = IF pipe.scraped_contents # <<>> /\ ~saved
                                 THEN "save" ELSE @,
                   !.pc = IF pipe.scraped_contents = <<>> THEN "finally"
                          ELSE IF saved THEN "process" ELSE "except"]
    /\ UNCHANGED graph
    /\ PipeUnchanged

\* Step 2: the text is prepared and written to processed_text.txt, which
\* may fail.
ProcessText ==
    /\ pipe.pc = "process"
    /\ \E written \in BOOLEAN :
        pipe' = [pipe EXCEPT
                   !.trace = Append(@, "process"),
                   !.prepared_text = prepare_for_infranodus(pipe.scraped_contents),
                   !.stats.content_size =
                       Len(prepare_for_infranodus(pipe.scraped_contents)),
                   !.exception = IF written THEN @ ELSE "write",
                   !.pc = IF written THEN "authenticate" ELSE "except"]
    /\ UNCHANGED graph
    /\ PipeUnchanged

\* Step 3: _import_to_infranodus logs in; a failed login and an exception
\* both give False.
Authenticate ==
    /\ pipe.pc = "authenticate"
    /\ \E ok \in BOOLEAN :
        pipe' = [pipe EXCEPT
                   !.trace = Append(@, "authenticate"),
                   !.login = IF ok THEN "ok" ELSE "failed",
                   !.pc = AfterAuthentication(ok)]
    /\ UNCHANGED graph
    /\ PipeUnchanged

\* Step 4: import_full_dataset, with a client of its own.  Its login fails
\* (it returns {}), or it runs every statement and returns their counts, or
\* a statement raises after the earlier ones ran.
ImportToNeo4j ==
    /\ pipe.pc = "import"
    /\ \/ /\ pipe' = [pipe EXCEPT
                        !.trace = Append(@, "import"),
                        !.stats = UpdatedStats(@, <<>>),
                        !.pc = "finally"]
          /\ UNCHANGED graph
       \/ LET out == ImportUpTo("", "keywords", graph, upstream, NoLocals, <<>>)
          IN  /\ graph' = out.graph
              /\ pipe' = [pipe EXCEPT
                            !.trace = Append(@, "import"),
                            !.stats = UpdatedStats(@, out.stats),
                            !.pc = "finally"]
       \/ \E i \in 1..Len(PhaseOrder) :
            /\ graph' = ImportUpTo(PhaseOrder[i], "keywords", graph, upstream,
                                   NoLocals, <<>>).graph
            /\ pipe' = [pipe EXCEPT
                          !.trace = Append(@, "import"),
                          !.exception = PhaseOrder[i],
                          !.pc = "except"]
    /\ PipeUnchanged

\* except Exception as e: stats["errors"].append(str(e))
PipelineExcept ==
    /\ pipe.pc = "except"
    /\ pipe' = [pipe EXCEPT
                  !.stats.errors = Append(@, pipe.exception),
                  !.pc = "finally"]
    /\ UNCHANGED graph
    /\ PipeUnchanged

\* finally: self.neo4j_importer.close(); then stats is returned.
PipelineFinally ==
    /\ pipe.pc = "finally"
    /\ pipe' = [pipe EXCEPT !.closed = TRUE, !.pc = "returned"]
    /\ UNCHANGED graph
    /\ PipeUnchanged

PipeNext ==
    \/ RunPipeline
    \/ ScrapeUrl
    \/ ScrapeDone
    \/ ProcessText
    \/ Authenticate
    \/ ImportToNeo4j
    \/ PipelineExcept
    \/ PipelineFinally

SpecPipeline == PipeInit /\ [][PipeNext]_vars

(***************************************************************************)
(* Properties of run_pipeline (SpecPipeline)                               *)
(***************************************************************************)
PipelineOrder == <<"scrape", "process", "authenticate", "import">>

PipelineCalled == pipe.pc # "idle"

PipelineReturned == pipe.pc = "returned"

ImportStarted == \E i \in 1..Len(pipe.trace) : pipe.trace[i] = "import"

\* The URLs of `urls` that are not in `failed`, in the order of `urls`.
Without(urls, failed) ==
    SelectIdx(urls, {i \in 1..Len(urls) :
                        \A j \in 1..Len(failed) : failed[j] # urls[i]}, 1)

\* C30: the steps of run_pipeline run in the order scrape, text processing,
\* InfraNodus authentication, Neo4j import; the import is started only with
\* scraped content and after a successful authentication, and a call that
\* returns without it reports zero imported keywords, clusters and
\* relationships and leaves the store as it was; the scraped contents are
\* those of the URLs whose scrape did not fail, every URL being tried; and a
\* call that has ended has returned its statistics with the importer
\* closed, and the exception of a step that raised is recorded in the
\* errors of the statistics.
C30_PipelineOrderAndCleanup ==
    PipelineCalled =>
        /\ pipe.trace = Take(PipelineOrder, Len(pipe.trace))
        /\ ImportStarted =>
              /\ pipe.scraped_contents # <<>>
              /\ pipe.login = "ok"
        /\ ~ImportStarted =>
              /\ pipe.stats.keywords_imported = 0
              /\ pipe.stats.clusters_imported = 0
              /\ pipe.stats.relationships_imported = 0
              /\ graph = EmptyGraph
        /\ pipe.pc # "scrape" =>
              /\ pipe.todo = <<>>
              /\ [i \in 1..Len(pipe.scraped_contents) |-> pipe.scraped_contents[i].url]
                    = Without(pipe.urls, pipe.failed)
              /\ pipe.stats.urls_scraped = Len(pipe.scraped_contents)
        /\ PipelineReturned =>
              /\ pipe.closed
              /\ pipe.stats.errors =
                    IF pipe.exception = "none" THEN <<>> ELSE <<pipe.exception>>
        /\ pipe.closed => PipelineReturned

C30_Witness ==
    /\ PipelineReturned
    /\ pipe.failed # <<>>
    /\ pipe.scraped_contents # <<>>
    /\ ImportStarted
    /\ pipe.stats.keywords_imported > 0
    /\ pipe.stats.errors = <<>>
    /\ pipe.closed

=============================================================================
